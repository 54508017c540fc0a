---------------------------- MODULE FixtureEodProofs ----------------------------
(***************************************************************************)
(* Proofs about FixtureEod, for any workers, commands, settings, questions *)
(* and bounds.                                                             *)
(***************************************************************************)
EXTENDS FixtureEod, SequenceTheorems, FiniteSetTheorems, TLAPS

\* The raw artifacts a command stores, and their files.
Raws(c) ==
    {Raw(c, Mutation(c.scenario))}
      \cup (IF RelatedBaseRequired(c.scenario) THEN {Raw(c, "unchanged")} ELSE {})
FileSet(c) == {"content", "metadata"} \X Raws(c)

\* Whether the rows of the key of a command are there.
HasEvent(c) == \E e \in events : e.market = c.market /\ e.key = c.key
HasRecord(c) == \E r \in records : r.command.market = c.market /\ r.command.key = c.key
HasWork(c) == \E k \in works : k.market = c.market /\ k.key = c.key

EventsOf(m) == {e \in events : e.market = m}

\* The event, the record and the work of a key are there, or none of them is.
Together ==
    \A c \in Commands : /\ HasEvent(c) <=> HasRecord(c)
                        /\ HasEvent(c) <=> HasWork(c)

RowsOK ==
    /\ IsFiniteSet(events) /\ IsFiniteSet(records) /\ IsFiniteSet(works)
    /\ \A r \in records : r.command \in Commands
    /\ Together
    /\ PublicationIsWhole
    /\ LineageClosed
    /\ answers \subseteq records

\* What a transaction has found of the event of its key: it is there, or its
\* version is one that has been given or the next one.
NumberOK(numbered, c, version) ==
    /\ numbered => HasEvent(c)
    /\ ~numbered => version \in 1..(Cardinality(EventsOf(c.market)) + 1)

StoringOK(c, left) ==
    /\ c \in Commands /\ left \in Seq(FileSet(c))
    /\ \A f \in FileSet(c) : f \in objects \/ \E i \in DOMAIN left : left[i] = f

NumberedOK(numbered, c, version) ==
    c \in Commands /\ FileSet(c) \subseteq objects /\ NumberOK(numbered, c, version)

\* What a process knows of its command stays true whatever others publish.
WorkerOK(w) ==
    /\ run[w].stage = "storing" => StoringOK(run[w].command, run[w].left)
    /\ run[w].stage = "numbered" =>
          NumberedOK(run[w].numbered, run[w].command, run[w].version)
    /\ run[w].stage = "compared" =>
          /\ NumberedOK(run[w].numbered, run[w].payload.command, run[w].payload.version)
          /\ run[w].recorded => run[w].payload \in records
          /\ run[w].worked => HasWork(run[w].payload.command)

RunOK ==
    /\ run = [w \in Workers |-> run[w]]
    /\ \A w \in Workers : WorkerOK(w)

\* The datasets whose records a question may show, once it has asked for them.
Needed(a) == IF a.kind = "listing" THEN {a.market} \cap FixtureMarkets ELSE FixtureMarkets

Allowance(m) ==
    [action |-> "research_prediction.read", dataset |-> m, allowed |-> TRUE, trace |-> "query"]

QueryOK ==
    /\ query # Idle => \A r \in query.shown : Allowance(r.command.market) \in audit
    /\ query.stage = "asking" =>
          /\ query.ask \in Asks /\ query.left \in Seq(FixtureMarkets)
          /\ \A m \in Needed(query.ask) :
                \/ Allowance(m) \in audit
                \/ \E i \in DOMAIN query.left : query.left[i] = m

IInv == RowsOK /\ RunOK /\ QueryOK

-----------------------------------------------------------------------------
(* What a command publishes.                                               *)

\* What a version a record shows cites is published with it.
LEMMA CitedWithArtifacts ==
    ASSUME NEW p, NEW a \in Cited(p)
    PROVE  a \in Artifacts(p) /\ a[3] \subseteq Artifacts(p)
<1> DEFINE raw == Raw(p.command, Mutation(p.command.scenario))
           base == Raw(p.command, "unchanged")
<1>raw. raw \in Artifacts(p) /\ raw[3] = {}
  BY DEF Artifacts, Raw
<1>policy. SourcePolicy(p) \in Artifacts(p) /\ SourcePolicy(p)[3] = {}
  BY DEF Artifacts, SourcePolicy
<1>base. /\ BaseSourceRecord(p)[3] = {base, SourcePolicy(p)}
         /\ Relation(p.command.scenario) # "independent" =>
               BaseSourceRecord(p) \in Artifacts(p) /\ base \in Artifacts(p)
  <2>1. CASE Relation(p.command.scenario) \in {"supersedes", "withdraws"}
    BY <2>1 DEF Artifacts, RelatedBaseRequired, BaseSourceRecord
  <2>2. CASE Relation(p.command.scenario) = "duplicate"
    <3>1. p.command.scenario = "duplicate"
      BY <2>2 DEF Relation
    <3>2. raw = base
      BY <3>1 DEF Mutation
    <3>3. SourceRecord(p) = BaseSourceRecord(p)
      BY <2>2 DEF SourceRecord
    <3> QED
      BY <1>raw, <3>2, <3>3 DEF Artifacts, BaseSourceRecord
  <2>3. Relation(p.command.scenario) \in {"duplicate", "supersedes", "withdraws", "independent"}
    BY DEF Relation
  <2> QED
    BY <2>1, <2>2, <2>3 DEF BaseSourceRecord
<1>source. SourceRecord(p) \in Artifacts(p) /\ SourceRecord(p)[3] \subseteq Artifacts(p)
  <2>1. SourceRecord(p) \in Artifacts(p)
    BY DEF Artifacts
  <2>2. CASE Relation(p.command.scenario) = "independent"
    BY <1>raw, <1>policy, <2>1, <2>2 DEF SourceRecord
  <2>3. CASE Relation(p.command.scenario) = "duplicate"
    BY <1>base, <1>policy, <2>1, <2>3 DEF SourceRecord
  <2>4. CASE Relation(p.command.scenario) \notin {"independent", "duplicate"}
    BY <1>base, <1>raw, <1>policy, <2>1, <2>4 DEF SourceRecord
  <2> QED
    BY <2>2, <2>3, <2>4
<1>data. ASSUME a \in {NormalizedRecord(p), RetrievalReceipt(p), CoverageReport(p),
                      Adjustment(p), DatasetVersion(p), DataSelection(p), FeatureSnapshot(p)}
         PROVE  a \in Artifacts(p) /\ a[3] \subseteq Artifacts(p)
  <2>1. NormalizedRecord(p)[3] = {SourceRecord(p)} /\ RetrievalReceipt(p)[3] = {SourceRecord(p)}
    BY DEF NormalizedRecord, RetrievalReceipt
  <2>2. CoverageReport(p)[3] = {} /\ FeatureSnapshot(p)[3] = {DataSelection(p)}
    BY DEF CoverageReport, FeatureSnapshot
  <2>3. Adjustment(p)[3] = {raw} \cup CompanyAction(p)
    BY DEF Adjustment
  <2>4. DatasetVersion(p)[3] =
            {NormalizedRecord(p), CoverageReport(p), Adjustment(p)} \cup Calendar(p)
    BY DEF DatasetVersion
  <2>5. DataSelection(p)[3] \subseteq {DatasetVersion(p), SourceRecord(p)}
    BY DEF DataSelection
  <2> QED
    BY <1>data, <1>source, <2>1, <2>2, <2>3, <2>4, <2>5 DEF Artifacts
<1>known. ASSUME a \in Calendar(p)
          PROVE  a \in Artifacts(p) /\ a[3] \subseteq Artifacts(p)
  <2>1. a[3] = {}
    BY <1>known DEF Calendar
  <2> QED
    BY <1>known, <2>1 DEF Artifacts
<1>standing. ASSUME a \in Standing(p)
             PROVE  a \in Artifacts(p) /\ a[3] \subseteq Artifacts(p)
  <2>1. a[3] \subseteq {SourcePolicy(p)} \cup Standing(p)
    BY <1>standing DEF Standing, Identity, Serving
  <2> QED
    BY <1>standing, <1>policy, <2>1 DEF Artifacts
<1>relatedbase. ASSUME Relation(p.command.scenario) # "independent"
                PROVE  /\ BaseSourceRecord(p) \in Artifacts(p)
                       /\ BaseSourceRecord(p)[3] \subseteq Artifacts(p)
  BY <1>relatedbase, <1>base, <1>policy
<1> QED
  BY <1>raw, <1>policy, <1>source, <1>data, <1>known, <1>standing, <1>relatedbase
     DEF Cited

\* The raw artifacts of a publication are those its command stored.
LEMMA RawArtifacts ==
    ASSUME NEW p, NEW a \in Artifacts(p), a[1] = "raw_artifact"
    PROVE  a \in Raws(p.command)
<1>1. SourceRecord(p)[1] = "source_record_version" /\ BaseSourceRecord(p)[1] = "source_record_version"
  BY DEF SourceRecord, BaseSourceRecord
<1>2. /\ SourcePolicy(p)[1] = "source_policy_version"
      /\ NormalizedRecord(p)[1] = "normalized_record_version"
      /\ RetrievalReceipt(p)[1] = "retrieval_receipt"
      /\ CoverageReport(p)[1] = "coverage_report"
  BY DEF SourcePolicy, NormalizedRecord, RetrievalReceipt, CoverageReport
<1>3. /\ Adjustment(p)[1] = "adjustment_version"
      /\ DatasetVersion(p)[1] = "dataset_version"
      /\ DataSelection(p)[1] = "data_selection"
      /\ FeatureSnapshot(p)[1] = "feature_snapshot"
  BY DEF Adjustment, DatasetVersion, DataSelection, FeatureSnapshot
<1>4. \A x \in Standing(p) : x[1] # "raw_artifact"
  BY DEF Standing, Identity, Serving
<1>5. \A x \in Calendar(p) \cup CompanyAction(p) : x[1] # "raw_artifact"
  BY DEF Calendar, CompanyAction
<1>6. a \in {Raw(p.command, Mutation(p.command.scenario))}
        \cup (IF RelatedBaseRequired(p.command.scenario)
             THEN {Raw(p.command, "unchanged"), BaseSourceRecord(p)} ELSE {})
  BY <1>1, <1>2, <1>3, <1>4, <1>5 DEF Artifacts
<1> QED
  BY <1>1, <1>6 DEF Raws

LEMMA TwoAndTwo ==
    ASSUME NEW a, NEW b, NEW c, NEW d
    PROVE  <<a, b>> \o <<c, d>> = <<a, b, c, d>>
<1> DEFINE S == {a, b, c, d}
<1>1. <<a, b>> \in Seq(S) /\ <<c, d>> \in Seq(S) /\ <<a, b, c, d>> \in Seq(S)
  OBVIOUS
<1>2. /\ <<a, b>> \o <<c, d>> \in Seq(S)
      /\ Len(<<a, b>> \o <<c, d>>) = 4
      /\ \A i \in 1..4 : (<<a, b>> \o <<c, d>>)[i] = <<a, b, c, d>>[i]
  BY <1>1, ConcatProperties
<1> QED
  BY <1>1, <1>2, SeqEqual

\* A process starts with every file of its command to be written.
LEMMA FilesComplete ==
    ASSUME NEW c
    PROVE  /\ Files(c) \in Seq(FileSet(c))
           /\ \A f \in FileSet(c) : \E i \in DOMAIN Files(c) : Files(c)[i] = f
<1> DEFINE put(raw) == << <<"content", raw>>, <<"metadata", raw>> >>
           first == put(Raw(c, Mutation(c.scenario)))
           second == put(Raw(c, "unchanged"))
<1>1. CASE RelatedBaseRequired(c.scenario)
  <2>1. Files(c) = first \o second
    BY <1>1 DEF Files
  <2>2. Files(c) = << <<"content", Raw(c, Mutation(c.scenario))>>,
                      <<"metadata", Raw(c, Mutation(c.scenario))>>,
                      <<"content", Raw(c, "unchanged")>>,
                      <<"metadata", Raw(c, "unchanged")>> >>
    BY <2>1, TwoAndTwo
  <2>3. FileSet(c) = { <<"content", Raw(c, Mutation(c.scenario))>>,
                       <<"metadata", Raw(c, Mutation(c.scenario))>>,
                       <<"content", Raw(c, "unchanged")>>,
                       <<"metadata", Raw(c, "unchanged")>> }
    BY <1>1 DEF FileSet, Raws
  <2> QED
    BY <2>2, <2>3, SMTT(30)
<1>2. CASE ~RelatedBaseRequired(c.scenario)
  <2>1. Files(c) = first \o << >>
    BY <1>2 DEF Files
  <2>2. Files(c) = << <<"content", Raw(c, Mutation(c.scenario))>>,
                      <<"metadata", Raw(c, Mutation(c.scenario))>> >>
    BY <2>1
  <2>3. FileSet(c) = { <<"content", Raw(c, Mutation(c.scenario))>>,
                       <<"metadata", Raw(c, Mutation(c.scenario))>> }
    BY <1>2 DEF FileSet, Raws
  <2> QED
    BY <2>2, <2>3
<1> QED
  BY <1>1, <1>2

-----------------------------------------------------------------------------
(* The publishing transaction.                                             *)

NewEvent(p) ==
    [market |-> p.command.market, key |-> p.command.key, trace |-> p.command.trace,
     version |-> p.version]
NewWork(p) ==
    [market |-> p.command.market, key |-> p.command.key, trace |-> p.command.trace,
     status |-> WorkStatus(p)]

\* A commit that inserts nothing but its audit row, and one that inserts the
\* event, the record, the work and the references of a new key.
Repeats(p) ==
    p \in records /\ UNCHANGED <<events, records, works, refs>>
Publishes(p) ==
    /\ ~HasEvent(p.command) /\ ~HasRecord(p.command)
    /\ \A k \in works : k.key # p.command.key
    /\ p.version = Cardinality(EventsOf(p.command.market)) + 1
    /\ events' = events \cup {NewEvent(p)}
    /\ records' = records \cup {p}
    /\ works' = works \cup {NewWork(p)}
    /\ refs' = refs \cup References(p)

\* The events of a listing are finite, and so they have a count.
LEMMA EventCounts ==
    ASSUME IsFiniteSet(events), NEW m
    PROVE  IsFiniteSet(EventsOf(m)) /\ Cardinality(EventsOf(m)) \in Nat
<1>1. EventsOf(m) \in SUBSET events
  BY DEF EventsOf
<1> QED
  BY <1>1, FS_Subset, FS_CardinalityType

\* A transaction publishes a key as a whole or not at all: of the unique keys
\* that others may have taken since it read, those it has found settle it.
LEMMA CommitIsWhole ==
    ASSUME RowsOK, NEW w \in Workers, WorkerOK(w), Commit(w)
    PROVE  /\ run[w].payload.command \in Commands
           /\ FileSet(run[w].payload.command) \subseteq objects
           /\ Repeats(run[w].payload) \/ Publishes(run[w].payload)
<1> DEFINE p == run[w].payload
           c == p.command
           n == Cardinality(EventsOf(c.market))
<1>1. /\ c \in Commands /\ FileSet(c) \subseteq objects
      /\ run[w].numbered => HasEvent(c)
      /\ ~run[w].numbered => p.version \in 1..(n + 1)
      /\ run[w].recorded => p \in records
      /\ run[w].worked => HasWork(c)
  BY DEF Commit, WorkerOK, NumberedOK, NumberOK
<1>2. (HasEvent(c) <=> HasRecord(c)) /\ (HasEvent(c) <=> HasWork(c))
  BY <1>1 DEF RowsOK, Together
<1>3. /\ ~run[w].numbered =>
            ~HasEvent(c) /\ \A e \in events : e.market = c.market => e.version # p.version
      /\ ~run[w].recorded => ~HasRecord(c)
      /\ ~run[w].worked => \A k \in works : k.key # c.key
  BY DEF Commit, Clash, HasEvent, HasRecord
<1>4. ASSUME \A k \in works : k.key # c.key
      PROVE  ~HasWork(c)
  BY <1>4 DEF HasWork
<1>5. CASE run[w].numbered
  <2>1. run[w].recorded /\ run[w].worked
    BY <1>1, <1>2, <1>3, <1>4, <1>5
  <2>2. Repeats(p)
    BY <1>1, <1>5, <2>1 DEF Commit, Repeats
  <2> QED
    BY <1>1, <2>2
<1>6. CASE ~run[w].numbered
  <2>1. ~HasEvent(c) /\ ~HasRecord(c) /\ ~HasWork(c)
    BY <1>2, <1>3, <1>6
  <2>2. ~run[w].recorded /\ ~run[w].worked
    <3>1. p \in records => HasRecord(c)
      BY DEF HasRecord
    <3> QED
      BY <1>1, <2>1, <3>1
  <2>3. p.version = n + 1
    <3>1. n \in Nat /\ p.version \in 1..(n + 1)
      BY <1>1, <1>6, EventCounts DEF RowsOK
    <3>2. {e.version : e \in {x \in events : x.market = c.market}} = 1..n
      BY <1>1, FixtureAssumption DEF RowsOK, PublicationIsWhole, EventsOf
    <3>3. p.version \notin 1..n
      BY <1>3, <1>6, <3>2
    <3> QED
      BY <3>1, <3>3
  <2>4. Publishes(p)
    BY <1>3, <1>6, <2>1, <2>2, <2>3 DEF Commit, Publishes, NewEvent, NewWork
  <2> QED
    BY <1>1, <2>4
<1> QED
  BY <1>5, <1>6

LEMMA PublishesRows ==
    ASSUME RowsOK, NEW p, p.command \in Commands, Publishes(p)
    PROVE  /\ IsFiniteSet(events') /\ IsFiniteSet(records') /\ IsFiniteSet(works')
           /\ \A m : Cardinality(EventsOf(m)') =
                       IF m = p.command.market THEN Cardinality(EventsOf(m)) + 1
                       ELSE Cardinality(EventsOf(m))
           /\ Together'
           /\ PublicationIsWhole'
<1> DEFINE c == p.command
<1>1. /\ NewEvent(p).market = c.market /\ NewEvent(p).key = c.key
      /\ NewEvent(p).trace = c.trace /\ NewEvent(p).version = p.version
      /\ NewWork(p).market = c.market /\ NewWork(p).key = c.key
      /\ NewWork(p).status = WorkStatus(p)
  BY DEF NewEvent, NewWork
<1>2. NewEvent(p) \notin events /\ p \notin records /\ NewWork(p) \notin works
  BY <1>1 DEF Publishes, HasEvent, HasRecord
<1>3. /\ IsFiniteSet(events') /\ Cardinality(events') = Cardinality(events) + 1
      /\ IsFiniteSet(records') /\ Cardinality(records') = Cardinality(records) + 1
      /\ IsFiniteSet(works') /\ Cardinality(works') = Cardinality(works) + 1
  BY <1>2, FS_AddElement DEF RowsOK, Publishes
<1>4. ASSUME NEW m
      PROVE  /\ m = c.market => /\ EventsOf(m)' = EventsOf(m) \cup {NewEvent(p)}
                                /\ Cardinality(EventsOf(m)') = Cardinality(EventsOf(m)) + 1
             /\ m # c.market => EventsOf(m)' = EventsOf(m)
  <2>1. /\ m = c.market => EventsOf(m)' = EventsOf(m) \cup {NewEvent(p)}
        /\ m # c.market => EventsOf(m)' = EventsOf(m)
    BY <1>1 DEF Publishes, EventsOf
  <2>2. NewEvent(p) \notin EventsOf(m)
    BY <1>2 DEF EventsOf
  <2> QED
    BY <2>1, <2>2, EventCounts, FS_AddElement DEF RowsOK
<1>5. Together'
  <2> SUFFICES ASSUME NEW d \in Commands
               PROVE  (HasEvent(d)' <=> HasRecord(d)') /\ (HasEvent(d)' <=> HasWork(d)')
    BY DEF Together
  <2>1. (HasEvent(d) <=> HasRecord(d)) /\ (HasEvent(d) <=> HasWork(d))
    BY DEF RowsOK, Together
  <2>2. HasEvent(d)' <=> HasEvent(d) \/ (d.market = c.market /\ d.key = c.key)
    BY <1>1 DEF Publishes, HasEvent
  <2>3. HasRecord(d)' <=> HasRecord(d) \/ (d.market = c.market /\ d.key = c.key)
    BY <1>1 DEF Publishes, HasRecord
  <2>4. HasWork(d)' <=> HasWork(d) \/ (d.market = c.market /\ d.key = c.key)
    BY <1>1 DEF Publishes, HasWork
  <2> QED
    BY <2>1, <2>2, <2>3, <2>4
<1>6. PublicationIsWhole'
  <2>1. /\ Cardinality(events') = Cardinality(records')
        /\ Cardinality(events') = Cardinality(works')
    BY <1>3 DEF RowsOK, PublicationIsWhole
  <2>2. ASSUME NEW r \in records'
        PROVE  /\ \E e \in EventOf(r)' : e.version = r.version /\ e.trace = r.command.trace
               /\ \E k \in works' : /\ k.key = r.command.key
                                     /\ k.market = r.command.market
                                     /\ k.status = WorkStatus(r)
    <3>1. CASE r = p
      BY <1>1, <3>1 DEF Publishes, EventOf
    <3>2. CASE r \in records
      <4>1. /\ \E e \in EventOf(r) : e.version = r.version /\ e.trace = r.command.trace
            /\ \E k \in works : /\ k.key = r.command.key
                                 /\ k.market = r.command.market
                                 /\ k.status = WorkStatus(r)
        BY <3>2 DEF RowsOK, PublicationIsWhole
      <4> QED
        BY <4>1 DEF Publishes, EventOf
    <3> QED
      BY <3>1, <3>2 DEF Publishes
  <2>3. ASSUME NEW m \in FixtureMarkets
        PROVE  {e.version : e \in EventsOf(m)'} = 1..Cardinality(EventsOf(m)')
    <3>1. {e.version : e \in EventsOf(m)} = 1..Cardinality(EventsOf(m))
      BY DEF RowsOK, PublicationIsWhole, EventsOf
    <3>2. Cardinality(EventsOf(m)) \in Nat
      BY EventCounts DEF RowsOK
    <3>3. CASE m = c.market
      BY <1>1, <1>4, <3>1, <3>2, <3>3 DEF Publishes
    <3>4. CASE m # c.market
      BY <1>4, <3>1, <3>4
    <3> QED
      BY <3>3, <3>4
  <2> QED
    BY <2>1, <2>2, <2>3 DEF PublicationIsWhole, EventsOf
<1> QED
  BY <1>3, <1>4, <1>5, <1>6

LEMMA PublishesLineage ==
    ASSUME LineageClosed, NEW p, FileSet(p.command) \subseteq objects, Publishes(p),
           UNCHANGED objects
    PROVE  LineageClosed'
<1>1. References(p) = {p.command.trace} \X Artifacts(p)
  BY DEF References
<1>2. ASSUME NEW r \in records', NEW a \in Cited(r)
      PROVE  <<r.command.trace, a>> \in refs' /\ {r.command.trace} \X a[3] \subseteq refs'
  <2>1. CASE r = p
    <3>1. a \in Artifacts(p) /\ a[3] \subseteq Artifacts(p)
      BY <2>1, CitedWithArtifacts
    <3> QED
      BY <1>1, <2>1, <3>1 DEF Publishes
  <2>2. CASE r \in records
    BY <2>2 DEF LineageClosed, Publishes
  <2> QED
    BY <2>1, <2>2 DEF Publishes
<1>3. ASSUME NEW r \in refs', r[2][1] = "raw_artifact"
      PROVE  <<"content", r[2]>> \in objects' /\ <<"metadata", r[2]>> \in objects'
  <2>1. CASE r \in refs
    BY <1>3, <2>1 DEF LineageClosed
  <2>2. CASE r \in References(p)
    <3>1. r[2] \in Raws(p.command)
      BY <1>1, <1>3, <2>2, RawArtifacts
    <3> QED
      BY <3>1 DEF FileSet
  <2> QED
    BY <2>1, <2>2 DEF Publishes
<1> QED
  BY <1>2, <1>3 DEF LineageClosed

LEMMA CommitRows ==
    ASSUME RowsOK, NEW w \in Workers, WorkerOK(w), Commit(w)
    PROVE  RowsOK'
<1> DEFINE p == run[w].payload
<1>1. /\ p.command \in Commands /\ FileSet(p.command) \subseteq objects
      /\ Repeats(p) \/ Publishes(p)
      /\ answers' = answers \cup {p} /\ UNCHANGED objects
  BY CommitIsWhole DEF Commit
<1> HIDE DEF p
<1>2. CASE Repeats(p)
  BY <1>1, <1>2 DEF Repeats, RowsOK, Together, HasEvent, HasRecord, HasWork,
     PublicationIsWhole, EventOf, LineageClosed
<1>3. CASE Publishes(p)
  <2>1. records' = records \cup {p}
    BY <1>3 DEF Publishes
  <2> QED
    BY <1>1, <1>3, <2>1, PublishesRows, PublishesLineage DEF RowsOK
<1> QED
  BY <1>1, <1>2, <1>3

-----------------------------------------------------------------------------
(* The processes.                                                          *)

\* Nothing that is stored goes away, and no count of events falls.
Grows ==
    /\ objects \subseteq objects' /\ events \subseteq events'
    /\ records \subseteq records' /\ works \subseteq works'
    /\ \A m : Cardinality(EventsOf(m)) <= Cardinality(EventsOf(m)')

\* What others store takes nothing away from what a process knows.
LEMMA GrowsWorker ==
    ASSUME RowsOK, RowsOK', Grows, NEW w \in Workers, WorkerOK(w), run'[w] = run[w]
    PROVE  WorkerOK(w)'
<1>1. \A c : /\ HasEvent(c) => HasEvent(c)'
             /\ HasWork(c) => HasWork(c)'
             /\ FileSet(c) \subseteq objects => FileSet(c) \subseteq objects'
  BY DEF Grows, HasEvent, HasWork
<1>2. \A m : /\ Cardinality(EventsOf(m)) \in Nat /\ Cardinality(EventsOf(m)') \in Nat
             /\ Cardinality(EventsOf(m)) <= Cardinality(EventsOf(m)')
  <2>1. ASSUME NEW m
        PROVE  Cardinality(EventsOf(m)) \in Nat
    BY EventCounts DEF RowsOK
  <2>2. ASSUME NEW m
        PROVE  Cardinality(EventsOf(m)') \in Nat
    <3>1. IsFiniteSet(events') /\ EventsOf(m)' \in SUBSET events'
      BY DEF RowsOK, EventsOf
    <3> QED
      BY <3>1, FS_Subset, FS_CardinalityType
  <2> QED
    BY <2>1, <2>2 DEF Grows
<1>3. ASSUME NEW b, NEW c, NEW v, NumberedOK(b, c, v)
      PROVE  NumberedOK(b, c, v)'
  BY <1>1, <1>2, <1>3 DEF NumberedOK, NumberOK
<1>4. ASSUME NEW c, NEW left, StoringOK(c, left)
      PROVE  StoringOK(c, left)'
  BY <1>4 DEF StoringOK, Grows
<1>5. records \subseteq records'
  BY DEF Grows
<1> QED
  BY <1>1, <1>3, <1>4, <1>5 DEF WorkerOK

LEMMA CommitGrows ==
    ASSUME RowsOK, NEW w \in Workers, WorkerOK(w), Commit(w)
    PROVE  Grows
<1> DEFINE p == run[w].payload
<1>1. p.command \in Commands /\ (Repeats(p) \/ Publishes(p)) /\ UNCHANGED objects
  BY CommitIsWhole DEF Commit
<1> HIDE DEF p
<1>2. CASE Repeats(p)
  <2>1. ASSUME NEW m
        PROVE  Cardinality(EventsOf(m)) <= Cardinality(EventsOf(m)')
    <3>1. EventsOf(m)' = EventsOf(m) /\ Cardinality(EventsOf(m)) \in Nat
      BY <1>2, EventCounts DEF Repeats, EventsOf, RowsOK
    <3> QED
      BY <3>1
  <2> QED
    BY <1>1, <1>2, <2>1 DEF Grows, Repeats
<1>3. CASE Publishes(p)
  <2>1. ASSUME NEW m
        PROVE  Cardinality(EventsOf(m)) <= Cardinality(EventsOf(m)')
    BY <1>1, <1>3, PublishesRows, EventCounts DEF RowsOK
  <2> QED
    BY <1>1, <1>3, <2>1 DEF Grows, Publishes
<1> QED
  BY <1>1, <1>2, <1>3

\* A step of one process that knows what it should afterwards.
LEMMA OneWorker ==
    ASSUME RowsOK, RowsOK', RunOK, Grows, NEW w \in Workers, NEW k,
           run' = [run EXCEPT ![w] = k],
           run'[w] = k => WorkerOK(w)'
    PROVE  RunOK'
<1>1. /\ run' = [v \in Workers |-> run'[v]] /\ run'[w] = k
      /\ \A v \in Workers \ {w} : run'[v] = run[v]
  BY DEF RunOK
<1>2. \A v \in Workers \ {w} : WorkerOK(v)'
  BY <1>1, GrowsWorker DEF RunOK
<1> QED
  BY <1>1, <1>2 DEF RunOK

LEMMA SameRows ==
    ASSUME RowsOK, UNCHANGED stored, UNCHANGED answers
    PROVE  RowsOK' /\ Grows
<1>1. RowsOK'
  BY DEF stored, RowsOK, Together, HasEvent, HasRecord, HasWork, PublicationIsWhole,
     EventOf, LineageClosed
<1>2. ASSUME NEW m
      PROVE  Cardinality(EventsOf(m)) <= Cardinality(EventsOf(m)')
  <2>1. EventsOf(m)' = EventsOf(m) /\ Cardinality(EventsOf(m)) \in Nat
    BY EventCounts DEF stored, EventsOf, RowsOK
  <2> QED
    BY <2>1
<1> QED
  BY <1>1, <1>2 DEF Grows, stored

LEMMA IdleWorker ==
    ASSUME NEW w \in Workers, run'[w] = Idle
    PROVE  WorkerOK(w)'
BY DEF WorkerOK, Idle

LEMMA BeginRun ==
    ASSUME RowsOK, RunOK, NEW w \in Workers, NEW c \in Commands, NEW s \in Settings,
           Begin(w, c, s)
    PROVE  RowsOK' /\ RunOK'
<1>1. RowsOK' /\ Grows
  BY SameRows DEF Begin
<1>2. CASE UNCHANGED run
  BY <1>1, <1>2, GrowsWorker DEF RunOK
<1>3. CASE run' = [run EXCEPT ![w] =
               [stage |-> "storing", left |-> Files(c), command |-> c,
                observed |-> IF s.observed = None THEN now ELSE s.observed,
                versions |-> VersionEvidence(s, c.market)]]
  <2> DEFINE o == IF s.observed = None THEN now ELSE s.observed
             e == VersionEvidence(s, c.market)
             k == [stage |-> "storing", left |-> Files(c), command |-> c,
                   observed |-> o, versions |-> e]
  <2> HIDE DEF o, e
  <2>1. ASSUME run'[w] = k
        PROVE  WorkerOK(w)'
    BY <2>1, FilesComplete DEF WorkerOK, StoringOK
  <2>2. run' = [run EXCEPT ![w] = k]
    BY <1>3 DEF o, e
  <2> HIDE DEF k
  <2> QED
    BY <1>1, <2>1, <2>2, OneWorker
<1> QED
  BY <1>1, <1>2, <1>3 DEF Begin

LEMMA WriteOnceRun ==
    ASSUME RowsOK, RunOK, NEW w \in Workers, WriteOnce(w)
    PROVE  RowsOK' /\ RunOK'
<1> DEFINE left == run[w].left
           c == run[w].command
           k == [run[w] EXCEPT !.left = Tail(left)]
<1>1. /\ run[w].stage = "storing" /\ left # <<>> /\ left \in Seq(FileSet(c))
      /\ \A f \in FileSet(c) : f \in objects \/ \E i \in DOMAIN left : left[i] = f
      /\ c \in Commands
      /\ objects' = objects \cup {Head(left)}
      /\ UNCHANGED <<events, records, works, refs, answers>>
  BY DEF WriteOnce, RunOK, WorkerOK, StoringOK
<1>2. RowsOK' /\ Grows
  <2>1. RowsOK'
    BY <1>1 DEF RowsOK, Together, HasEvent, HasRecord, HasWork, PublicationIsWhole,
       EventOf, LineageClosed
  <2>2. ASSUME NEW m
        PROVE  Cardinality(EventsOf(m)) <= Cardinality(EventsOf(m)')
    <3>1. EventsOf(m)' = EventsOf(m) /\ Cardinality(EventsOf(m)) \in Nat
      BY <1>1, EventCounts DEF EventsOf, RowsOK
    <3> QED
      BY <3>1
  <2> QED
    BY <1>1, <2>1, <2>2 DEF Grows
<1>3. /\ Tail(left) \in Seq(FileSet(c))
      /\ \A f \in FileSet(c) :
            f \in objects' \/ \E i \in DOMAIN Tail(left) : Tail(left)[i] = f
  <2>1. /\ Tail(left) \in Seq(FileSet(c))
        /\ Len(Tail(left)) = Len(left) - 1
        /\ \A i \in 1..Len(Tail(left)) : Tail(left)[i] = left[i + 1]
        /\ Len(left) \in Nat /\ DOMAIN left = 1..Len(left)
        /\ DOMAIN Tail(left) = 1..Len(Tail(left))
        /\ Head(left) = left[1]
    <3>1. left \in Seq(FileSet(c)) /\ left # <<>>
      BY <1>1
    <3> HIDE DEF left, c
    <3>2. /\ Tail(left) \in Seq(FileSet(c))
          /\ Len(Tail(left)) = Len(left) - 1
          /\ \A i \in 1..Len(Tail(left)) : Tail(left)[i] = left[i + 1]
      BY <3>1, HeadTailProperties
    <3> QED
      BY <3>1, <3>2, LenProperties
  <2>2. ASSUME NEW i \in DOMAIN left
        PROVE  left[i] \in objects' \/ \E j \in DOMAIN Tail(left) : Tail(left)[j] = left[i]
    <3>1. CASE i = 1
      BY <1>1, <2>1, <3>1
    <3>2. CASE i # 1
      <4>1. i - 1 \in DOMAIN Tail(left) /\ Tail(left)[i - 1] = left[(i - 1) + 1]
        BY <2>1, <3>2
      <4> QED
        BY <2>1, <4>1
    <3> QED
      BY <3>1, <3>2
  <2> QED
    BY <1>1, <2>1, <2>2
<1>4. k.stage = "storing" /\ k.command = c /\ k.left = Tail(left)
  <2>1. run[w].stage = "storing"
    BY <1>1
  <2> QED
    BY <2>1 DEF WriteOnce
<1>5. run' = [run EXCEPT ![w] = k]
  BY DEF WriteOnce
<1>6. ASSUME run'[w] = k
      PROVE  WorkerOK(w)'
  <2> HIDE DEF k
  <2> QED
    BY <1>1, <1>3, <1>4, <1>6 DEF WorkerOK, StoringOK
<1> HIDE DEF k
<1> QED
  BY <1>2, <1>5, <1>6, OneWorker

\* The next version of a listing whose events are numbered without gaps.
LEMMA NextVersion ==
    ASSUME RowsOK, NEW m \in FixtureMarkets
    PROVE  Max({0} \cup {e.version : e \in EventsOf(m)}) = Cardinality(EventsOf(m))
<1> DEFINE n == Cardinality(EventsOf(m))
           S == {0} \cup {e.version : e \in EventsOf(m)}
<1>1. n \in Nat
  BY EventCounts DEF RowsOK
<1>2. S = 0..n
  <2>1. {e.version : e \in EventsOf(m)} = 1..n
    BY DEF RowsOK, PublicationIsWhole, EventsOf
  <2> QED
    BY <1>1, <2>1
<1> HIDE DEF n, S
<1>3. n \in S /\ \A y \in S : n >= y
  BY <1>1, <1>2
<1>4. \A x \in S : (\A y \in S : x >= y) => x = n
  BY <1>1, <1>2
<1>5. Max(S) = n
  BY <1>3, <1>4 DEF Max
<1> QED
  BY <1>5 DEF S, n

LEMMA KeepsNumbered ==
    ASSUME UNCHANGED stored, NEW b, NEW c, NEW v, NumberedOK(b, c, v)
    PROVE  NumberedOK(b, c, v)'
<1>1. NumberOK(b, c, v)'
  BY DEF NumberedOK, NumberOK, HasEvent, EventsOf, stored
<1> QED
  BY <1>1 DEF NumberedOK, stored

LEMMA BecomesNumbered ==
    ASSUME RowsOK, RunOK, NEW w \in Workers, NEW k, k.stage = "numbered",
           NumberedOK(k.numbered, k.command, k.version),
           run' = [run EXCEPT ![w] = k], UNCHANGED stored, UNCHANGED answers
    PROVE  RowsOK' /\ RunOK'
<1>1. RowsOK' /\ Grows
  BY SameRows
<1>2. NumberedOK(k.numbered, k.command, k.version)'
  BY KeepsNumbered
<1>3. run'[w] = k => WorkerOK(w)'
  BY <1>2 DEF WorkerOK
<1> QED
  BY <1>1, <1>3, OneWorker

LEMMA BecomesCompared ==
    ASSUME RowsOK, RunOK, NEW w \in Workers, NEW k, k.stage = "compared",
           NumberedOK(k.numbered, k.payload.command, k.payload.version),
           k.recorded => k.payload \in records,
           k.worked => HasWork(k.payload.command),
           run' = [run EXCEPT ![w] = k], UNCHANGED stored, UNCHANGED answers
    PROVE  RowsOK' /\ RunOK'
<1>1. RowsOK' /\ Grows
  BY SameRows
<1>2. NumberedOK(k.numbered, k.payload.command, k.payload.version)'
  BY KeepsNumbered
<1>3. /\ k.recorded => k.payload \in records'
      /\ k.worked => HasWork(k.payload.command)'
  BY DEF stored, HasWork
<1>4. run'[w] = k => WorkerOK(w)'
  BY <1>2, <1>3 DEF WorkerOK
<1> QED
  BY <1>1, <1>4, OneWorker

LEMMA NumberRun ==
    ASSUME RowsOK, RunOK, NEW w \in Workers, Number(w)
    PROVE  RowsOK' /\ RunOK'
<1> DEFINE c == run[w].command
           ofListing == {e \in events : e.market = c.market}
           existing == {e \in ofListing : e.key = c.key}
           v == IF existing # {} THEN (CHOOSE e \in existing : TRUE).version
                ELSE Max({0} \cup {e.version : e \in ofListing}) + 1
           k == [stage |-> "numbered", command |-> c,
                 observed |-> run[w].observed, versions |-> run[w].versions,
                 numbered |-> existing # {}, version |-> v]
<1>2. /\ c \in Commands /\ FileSet(c) \subseteq objects
  BY DEF Number, RunOK, WorkerOK, StoringOK
<1>3. NumberOK(existing # {}, c, v)
  <2>1. CASE existing # {}
    BY <2>1 DEF NumberOK, HasEvent
  <2>2. CASE existing = {}
    <3>1. v = Max({0} \cup {e.version : e \in EventsOf(c.market)}) + 1
      BY <2>2 DEF EventsOf
    <3>2. v = Cardinality(EventsOf(c.market)) + 1
      <4>1. c.market \in FixtureMarkets
        BY <1>2, FixtureAssumption
      <4> HIDE DEF v
      <4> QED
        BY <3>1, <4>1, NextVersion
    <3>3. Cardinality(EventsOf(c.market)) \in Nat
      BY EventCounts DEF RowsOK
    <3> HIDE DEF v
    <3> QED
      BY <2>2, <3>2, <3>3 DEF NumberOK
  <2> QED
    BY <2>1, <2>2
<1>4. run' = [run EXCEPT ![w] = k] /\ UNCHANGED stored /\ UNCHANGED answers
  BY DEF Number
<1> HIDE DEF v
<1>5. /\ k.stage = "numbered" /\ k.command = c /\ k.version = v
      /\ k.numbered <=> existing # {}
  OBVIOUS
<1> HIDE DEF k, existing
<1>6. NumberedOK(k.numbered, k.command, k.version)
  BY <1>2, <1>3, <1>5 DEF NumberedOK, NumberOK
<1> QED
  BY <1>4, <1>5, <1>6, BecomesNumbered

LEMMA CompareRun ==
    ASSUME RowsOK, RunOK, NEW w \in Workers, Compare(w)
    PROVE  RowsOK' /\ RunOK'
<1> DEFINE c == run[w].command
           p == Payload(w)
           existing == {r \in records : SameRecord(r, c)}
           worked == \E k \in works : k.market = c.market /\ k.key = c.key
           k == [stage |-> "compared", numbered |-> run[w].numbered,
                 payload |-> p, recorded |-> existing # {},
                 worked |-> worked, seen |-> refs]
<1>2. NumberedOK(run[w].numbered, c, run[w].version)
  BY DEF Compare, RunOK, WorkerOK
<1>3. p.command = c /\ p.version = run[w].version
  BY DEF Payload
<1>4. existing # {} => p \in records
  BY DEF Compare
<1>5. worked <=> HasWork(c)
  BY DEF HasWork
<1>6. run' = [run EXCEPT ![w] = k] /\ UNCHANGED stored /\ UNCHANGED answers
  BY DEF Compare
<1> HIDE DEF p, existing, worked
<1>7. /\ k.stage = "compared" /\ k.numbered = run[w].numbered /\ k.payload = p
      /\ k.recorded <=> existing # {}
      /\ k.worked <=> worked
  OBVIOUS
<1> HIDE DEF k
<1> QED
  BY <1>2, <1>3, <1>4, <1>5, <1>6, <1>7, BecomesCompared

LEMMA CommitRun ==
    ASSUME RowsOK, RunOK, NEW w \in Workers, Commit(w)
    PROVE  RowsOK' /\ RunOK'
<1>1. WorkerOK(w)
  BY DEF RunOK
<1>2. RowsOK' /\ Grows
  BY <1>1, CommitRows, CommitGrows
<1>3. run' = [run EXCEPT ![w] = Idle]
  BY DEF Commit
<1> QED
  BY <1>2, <1>3, IdleWorker, OneWorker

LEMMA DieRun ==
    ASSUME RowsOK, RunOK, NEW w \in Workers, Die(w)
    PROVE  RowsOK' /\ RunOK'
<1>1. RowsOK' /\ Grows
  BY SameRows DEF Die
<1>2. run' = [run EXCEPT ![w] = Idle]
  BY DEF Die
<1> QED
  BY <1>1, <1>2, IdleWorker, OneWorker

\* The clock and the queries leave the processes and what they store alone.
LEMMA OthersRun ==
    ASSUME RowsOK, RunOK, UNCHANGED <<stored, run, answers>>
    PROVE  RowsOK' /\ RunOK'
<1>1. RowsOK' /\ Grows
  BY SameRows
<1> QED
  BY <1>1, GrowsWorker DEF RunOK

-----------------------------------------------------------------------------
(* Queries.                                                                *)

\* Audit rows stay.
LEMMA AuditGrows ==
    ASSUME QueryOK, UNCHANGED query, audit \subseteq audit'
    PROVE  QueryOK'
BY DEF QueryOK, Allowance

LEMMA DatasetsCover ==
    ASSUME RowsOK, NEW a
    PROVE  /\ DatasetsOf(a) \in Seq(FixtureMarkets)
           /\ \A m \in Needed(a) :
                  \E i \in DOMAIN DatasetsOf(a) : DatasetsOf(a)[i] = m
<1>1. CASE a.kind = "listing" /\ \E r \in records : SameRecord(r, a)
  <2>1. a.market \in FixtureMarkets
    BY <1>1, FixtureAssumption DEF RowsOK, SameRecord
  <2>2. DatasetsOf(a) = <<a.market>>
    BY <1>1 DEF DatasetsOf
  <2>3. DatasetsOf(a) \in Seq(FixtureMarkets) /\ 1 \in DOMAIN DatasetsOf(a)
        /\ DatasetsOf(a)[1] = a.market
    BY <2>1, <2>2
  <2> QED
    BY <1>1, <2>3 DEF Needed
<1>2. CASE ~(a.kind = "listing" /\ \E r \in records : SameRecord(r, a))
  <2>1. DatasetsOf(a) = <<"xtai-fixture-eod", "xnas-fixture-eod">>
    BY <1>2 DEF DatasetsOf, Everything
  <2>2. DatasetsOf(a) \in Seq(FixtureMarkets)
        /\ {1, 2} \subseteq DOMAIN DatasetsOf(a)
        /\ DatasetsOf(a)[1] = "xtai-fixture-eod" /\ DatasetsOf(a)[2] = "xnas-fixture-eod"
    BY <2>1 DEF FixtureMarkets
  <2> QED
    BY <2>2 DEF Needed, FixtureMarkets
<1> QED
  BY <1>1, <1>2

\* What a question shows needs the dataset of its record.
LEMMA ShownNeeded ==
    ASSUME RowsOK, NEW a \in Asks, NEW r \in Shown(a)
    PROVE  r.command.market \in Needed(a)
<1>1. a.kind \in {"listing", "predictions", "history"}
  BY FixtureAssumption
<1>2. r \in records /\ (a.kind = "listing" => SameRecord(r, a))
  BY <1>1 DEF Shown
<1>3. r.command.market \in FixtureMarkets
  BY <1>2, FixtureAssumption DEF RowsOK
<1> QED
  BY <1>2, <1>3 DEF Needed, SameRecord

LEMMA AskQuery ==
    ASSUME RowsOK, QueryOK, NEW a \in Asks, NEW s \in Settings, Ask(a, s)
    PROVE  QueryOK'
<1> DEFINE q == [stage |-> "asking", ask |-> a, setting |-> s, left |-> DatasetsOf(a),
                 shown |-> {}]
<1>1. query' = q
  BY DEF Ask
<1>2. /\ q.stage = "asking" /\ q.ask = a /\ q.left = DatasetsOf(a) /\ q.shown = {}
  OBVIOUS
<1> HIDE DEF q
<1>3. /\ query'.left \in Seq(FixtureMarkets)
      /\ \A m \in Needed(query'.ask) :
            \E i \in DOMAIN query'.left : query'.left[i] = m
  BY <1>1, <1>2, DatasetsCover
<1> QED
  BY <1>1, <1>2, <1>3 DEF QueryOK, Needed

\* The audit row of a decision about reading a dataset.
LEMMA ReadDecision ==
    ASSUME NEW s, NEW m, Authorize(s, "research_prediction.read", m).allowed
    PROVE  AuditRow(Authorize(s, "research_prediction.read", m), "query") = Allowance(m)
<1> DEFINE d == Authorize(s, "research_prediction.read", m)
<1>1. d.action = "research_prediction.read" /\ d.dataset = m /\ d.allowed \in BOOLEAN
  BY DEF Authorize, Evaluate, Decision, Intent
<1> HIDE DEF d
<1>2. d.allowed = TRUE
  BY <1>1 DEF d
<1>3. AuditRow(d, "query") = Allowance(m)
  BY <1>1, <1>2 DEF AuditRow, Allowance
<1> QED
  BY <1>3 DEF d

LEMMA AuthorizeDatasetQuery ==
    ASSUME QueryOK, AuthorizeDataset
    PROVE  QueryOK'
<1> DEFINE left == query.left
           m == Head(left)
           decision == Authorize(query.setting, "research_prediction.read", m)
<1>1. /\ query.stage = "asking" /\ left # <<>> /\ left \in Seq(FixtureMarkets)
      /\ query # Idle /\ query.ask \in Asks
      /\ audit' = audit \cup {AuditRow(decision, "query")}
  BY DEF AuthorizeDataset, QueryOK, Idle
<1>2. CASE ~decision.allowed
  <2>1. query' = [query EXCEPT !.stage = "done"]
    BY <1>2 DEF AuthorizeDataset
  <2>2. query'.stage = "done" /\ query'.shown = query.shown
    BY <2>1
  <2> QED
    BY <1>1, <2>2 DEF QueryOK, Allowance
<1>3. CASE decision.allowed
  <2>1. query' = [query EXCEPT !.left = Tail(left)]
    BY <1>3 DEF AuthorizeDataset
  <2>2. /\ query'.stage = "asking" /\ query'.shown = query.shown
        /\ query'.ask = query.ask /\ query'.left = Tail(left)
    BY <1>1, <2>1
  <2>3. Allowance(m) \in audit'
    BY <1>1, <1>3, ReadDecision
  <2>4. /\ Tail(left) \in Seq(FixtureMarkets)
        /\ \A i \in DOMAIN left :
              left[i] = m \/ \E j \in DOMAIN Tail(left) : Tail(left)[j] = left[i]
    <3>1. left \in Seq(FixtureMarkets) /\ left # <<>>
      BY <1>1
    <3> HIDE DEF left
    <3>2. /\ Tail(left) \in Seq(FixtureMarkets)
          /\ Len(Tail(left)) = Len(left) - 1
          /\ \A i \in 1..Len(Tail(left)) : Tail(left)[i] = left[i + 1]
      BY <3>1, HeadTailProperties
    <3>3. /\ Len(left) \in Nat /\ DOMAIN left = 1..Len(left)
          /\ DOMAIN Tail(left) = 1..Len(Tail(left))
          /\ Head(left) = left[1]
      BY <3>1, <3>2, LenProperties
    <3>4. ASSUME NEW i \in DOMAIN left, i # 1
          PROVE  \E j \in DOMAIN Tail(left) : Tail(left)[j] = left[i]
      <4>1. i - 1 \in DOMAIN Tail(left) /\ Tail(left)[i - 1] = left[(i - 1) + 1]
        BY <3>2, <3>3, <3>4
      <4> QED
        BY <3>3, <4>1
    <3> QED
      BY <3>2, <3>3, <3>4
  <2>5. ASSUME NEW d \in Needed(query'.ask)
        PROVE  \/ Allowance(d) \in audit'
               \/ \E j \in DOMAIN query'.left : query'.left[j] = d
    <3>1. Allowance(d) \in audit \/ \E i \in DOMAIN left : left[i] = d
      BY <1>1, <2>2, <2>5 DEF QueryOK
    <3> QED
      BY <1>1, <2>2, <2>3, <2>4, <3>1
  <2>6. \A r \in query'.shown : Allowance(r.command.market) \in audit'
    BY <1>1, <2>2 DEF QueryOK
  <2> QED
    BY <1>1, <2>2, <2>4, <2>5, <2>6 DEF QueryOK, Allowance, Needed
<1> QED
  BY <1>2, <1>3

LEMMA ShowQuery ==
    ASSUME RowsOK, QueryOK, Show
    PROVE  QueryOK'
<1>1. /\ query.stage = "asking" /\ query.left = <<>> /\ query.ask \in Asks
      /\ query' = [query EXCEPT !.stage = "done", !.shown = Shown(query.ask)]
      /\ audit' = audit
      /\ \A m \in Needed(query.ask) : Allowance(m) \in audit
  BY DEF Show, QueryOK
<1>2. query'.stage = "done" /\ query'.shown = Shown(query.ask)
  BY <1>1
<1>3. \A r \in Shown(query.ask) : Allowance(r.command.market) \in audit
  BY <1>1, ShownNeeded
<1> QED
  BY <1>1, <1>2, <1>3 DEF QueryOK, Allowance

-----------------------------------------------------------------------------
(* The invariant.                                                          *)

LEMMA InitIInv == Init => IInv
<1> SUFFICES ASSUME Init PROVE IInv
  OBVIOUS
<1>1. /\ IsFiniteSet({}) /\ Cardinality({}) = 0
      /\ \A m : EventsOf(m) = {}
  BY FS_EmptySet DEF Init, EventsOf
<1>2. PublicationIsWhole
  <2>1. ASSUME NEW m \in FixtureMarkets
        PROVE  {e.version : e \in {x \in events : x.market = m}}
                 = 1..Cardinality({e \in events : e.market = m})
    <3>1. {e \in events : e.market = m} = {}
      BY DEF Init
    <3>2. {e.version : e \in {x \in events : x.market = m}} = {}
      BY DEF Init
    <3>3. 1..0 = {}
      OBVIOUS
    <3> QED
      BY <1>1, <3>1, <3>2, <3>3, Zenon
  <2> QED
    BY <2>1 DEF Init, PublicationIsWhole
<1>3. LineageClosed
  BY DEF Init, LineageClosed
<1>4. RowsOK
  BY <1>1, <1>2, <1>3 DEF Init, RowsOK, Together, HasEvent, HasRecord, HasWork
<1>5. RunOK
  BY DEF Init, RunOK, WorkerOK, Idle
<1>6. QueryOK
  BY DEF Init, QueryOK, Idle
<1> QED
  BY <1>4, <1>5, <1>6 DEF IInv

LEMMA NextIInv ==
    ASSUME IInv, [Next]_vars
    PROVE  IInv'
<1> USE DEF IInv
<1>1. CASE Tick
  <2>1. UNCHANGED <<stored, run, answers>> /\ UNCHANGED query /\ audit \subseteq audit'
    BY <1>1 DEF Tick
  <2> QED
    BY <2>1, OthersRun, AuditGrows
<1>2. ASSUME NEW w \in Workers,
             \/ \E c \in Commands, s \in Settings : Begin(w, c, s)
             \/ WriteOnce(w) \/ Number(w) \/ Compare(w) \/ Commit(w) \/ Die(w)
      PROVE  IInv'
  <2>1. RowsOK' /\ RunOK'
    BY <1>2, BeginRun, WriteOnceRun, NumberRun, CompareRun, CommitRun, DieRun
  <2>2. UNCHANGED query /\ audit \subseteq audit'
    BY <1>2 DEF Begin, WriteOnce, Number, Compare, Commit, Die
  <2> QED
    BY <2>1, <2>2, AuditGrows
<1>3. CASE \E a \in Asks, s \in Settings : Ask(a, s)
  <2>1. UNCHANGED <<stored, run, answers>>
    BY <1>3 DEF Ask
  <2> QED
    BY <1>3, <2>1, OthersRun, AskQuery
<1>4. CASE AuthorizeDataset
  <2>1. UNCHANGED <<stored, run, answers>>
    BY <1>4 DEF AuthorizeDataset
  <2> QED
    BY <1>4, <2>1, OthersRun, AuthorizeDatasetQuery
<1>5. CASE Show
  <2>1. UNCHANGED <<stored, run, answers>>
    BY <1>5 DEF Show
  <2> QED
    BY <1>5, <2>1, OthersRun, ShowQuery
<1>6. CASE UNCHANGED vars
  <2>1. UNCHANGED <<stored, run, answers>> /\ UNCHANGED query /\ audit \subseteq audit'
    BY <1>6 DEF vars, stored
  <2> QED
    BY <2>1, OthersRun, AuditGrows
<1> QED
  BY <1>1, <1>2, <1>3, <1>4, <1>5, <1>6 DEF Next

LEMMA Invariance == Spec => []IInv
BY InitIInv, NextIInv, PTL DEF Spec

\* publish_fixture_trace: whatever races, retries, conflicts and deaths there
\* are, an event, its record and its work come together and once, and the events
\* of a listing are numbered without gaps.
THEOREM PublicationWhole == Spec => []PublicationIsWhole
<1>1. IInv => PublicationIsWhole
  BY DEF IInv, RowsOK
<1> QED
  BY <1>1, Invariance, PTL

\* Every version a published record shows, and every version one of those cites,
\* is an artifact of its trace, and each raw artifact is in the repository.
THEOREM LineageComplete == Spec => []LineageClosed
<1>1. IInv => LineageClosed
  BY DEF IInv, RowsOK
<1> QED
  BY <1>1, Invariance, PTL

\* FixtureEodOutcome: whatever answer a command gets, first or repeated, is about
\* the record that is stored; indeed it is that record.
THEOREM AnswersStored == Spec => [](AnswersAreRecords /\ answers \subseteq records)
<1>1. IInv => AnswersAreRecords /\ answers \subseteq records
  <2> SUFFICES ASSUME IInv PROVE AnswersAreRecords /\ answers \subseteq records
    OBVIOUS
  <2>1. answers \subseteq records
    BY DEF IInv, RowsOK
  <2>2. \A a \in answers : SameRecord(a, a.command)
    BY DEF SameRecord
  <2> QED
    BY <2>1, <2>2 DEF AnswersAreRecords
<1> QED
  BY <1>1, Invariance, PTL

\* ResearchQuery: no record is shown, not even one published after the query
\* looked up what to authorize, unless reading its dataset was allowed and audited.
THEOREM ReadsAudited == Spec => []ReadsAreAudited
<1>1. IInv => ReadsAreAudited
  BY DEF IInv, QueryOK, ReadsAreAudited, Allowance
<1> QED
  BY <1>1, Invariance, PTL

===============================================================================
