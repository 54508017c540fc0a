--------------------------- MODULE MarketReference ---------------------------
(***************************************************************************)
(* What the two provider clients make of the answers they collected: which *)
(* listing a symbol meant on a day, whether the collection is complete, and *)
(* the partition decoded from it, up to the reason to quarantine it.  Pure *)
(* operators: ProviderCollection collects the answers.                     *)
(*                                                                         *)
(* A graph knows listings, each with dated aliases (symbols) and lifecycle *)
(* events.  An open end of an alias is a day outside the calendar.  Pages  *)
(* are a sequence of sets of rows; a price row is [symbol, day, value].    *)
(***************************************************************************)
EXTENDS Naturals, FiniteSets, Sequences, FiniteSetsExt, SequencesExt

CONSTANT None

InWindow(day, request) == request.start <= day /\ day <= request.end

-----------------------------------------------------------------------------
(* The reference graph and the calendar evidence *)

ActiveAlias(alias, day) == alias.from <= day /\ day <= alias.to
OverlapsWindow(alias, request) == alias.from <= request.end /\ request.start <= alias.to
AliasesMeet(a, b) == a.from <= b.to /\ b.from <= a.to

\* The decoders take a graph in which a symbol means at most one listing a day.
Unambiguous(graph) ==
    \A l, m \in graph.listings : \A a \in l.aliases, b \in m.aliases :
        a.symbol = b.symbol /\ <<l, a>> # <<m, b>> => ~AliasesMeet(a, b)

GraphValid(graph) ==
    /\ graph.listings # {}
    /\ \A l \in graph.listings :
         /\ l.aliases # {}
         /\ graph.lifecycleComplete => \E e \in l.lifecycle : e.status = "active"
    /\ \A l, m \in graph.listings : l.id = m.id => l = m
    /\ \A e \in graph.expected : \E l \in graph.listings : l.id = e.listing
    /\ \A e, f \in graph.expected : e.id = f.id => e = f

Ids(graph) == {l.id : l \in graph.listings}
Listing(graph, id) == CHOOSE l \in graph.listings : l.id = id
Requested(graph, request) == {Listing(graph, id) : id \in request.listings}

PartitionAliases(listing, request) == {a \in listing.aliases : OverlapsWindow(a, request)}
Symbols(graph, request) ==
    {a.symbol : a \in UNION {PartitionAliases(l, request) : l \in Requested(graph, request)}}

\* The ids whose action the graph expects in the partition.
ExpectedActions(graph, request) ==
    {e.id : e \in {x \in graph.expected : x.listing \in request.listings
                                            /\ InWindow(x.at, request)}}

\* A singleton, or empty when the evidence does not cover the window.
ExpectedSessions(calendars, request) ==
    {{s \in c.sessions : InWindow(s.day, request)}
        : c \in {x \in calendars : x.start <= request.start /\ request.end <= x.end}}

\* The listing a symbol meant on a day: a singleton, or empty if not exactly one.
ListingFor(graph, symbol, day) ==
    LET ids == {l.id : l \in {x \in graph.listings :
                    \E a \in x.aliases : a.symbol = symbol /\ ActiveAlias(a, day)}}
    IN  IF Cardinality(ids) = 1 THEN ids ELSE {}

Known(graph, symbol) == \E l \in graph.listings : \E a \in l.aliases : a.symbol = symbol

\* Without a complete lifecycle every requested listing counts as active.
ListingActive(graph, listing, day) ==
    LET past == {e \in listing.lifecycle : e.at <= day}
    IN  graph.lifecycleComplete =>
          /\ past # {}
          /\ \E e \in past : e.at = Max({x.at : x \in past}) /\ e.status = "active"

-----------------------------------------------------------------------------
(* Decoding, common to both providers *)

Rows(pages) == UNION {pages[i] : i \in DOMAIN pages}
Occurrences(pages) == {o \in (DOMAIN pages) \X Rows(pages) : o[2] \in pages[o[1]]}

\* The occurrences of actions whose id no earlier page has, and the others.
Firsts(occurrences) ==
    {o \in occurrences : ~\E p \in occurrences : p[1] < o[1] /\ p[2].id = o[2].id}
Repeats(occurrences) == occurrences \ Firsts(occurrences)

\* Prices of the identified rows, one for a listing and day.
PriceKey(graph, row) == <<ListingFor(graph, row.symbol, row.day), row.day>>
DecodedPrices(graph, occurrences) ==
    LET identified == {o \in occurrences : ListingFor(graph, o[2].symbol, o[2].day) # {}}
        keys == {PriceKey(graph, o[2]) : o \in identified}
    IN  [rows |-> {[listing |-> CHOOSE id \in k[1] : TRUE, day |-> k[2]] : k \in keys},
         issues |-> IF identified # occurrences \/ Cardinality(keys) < Cardinality(identified)
                    THEN {"identity_ambiguous"} ELSE {}]

-----------------------------------------------------------------------------
(* Alpaca *)

AlpacaTypes == {"cash_dividend", "forward_split", "reverse_split", "name_change"}

\* A name change is identified by the old symbol the day before and the new one.
AlpacaActionListing(graph, action) ==
    IF action.type = "name_change"
    THEN IF action.day = 0 THEN {}
         ELSE ListingFor(graph, action.symbol, action.day - 1)
                \cap ListingFor(graph, action.new, action.day)
    ELSE ListingFor(graph, action.symbol, action.day)

AlpacaActions(graph, request, pages) ==
    LET all == Occurrences(pages)
        first == Firsts(all)
        identified == {o[2] : o \in {x \in first : AlpacaActionListing(graph, x[2]) # {}}}
    IN  [records |-> {[listing |-> CHOOSE id \in AlpacaActionListing(graph, a) : TRUE,
                       day |-> a.day, kind |-> a.type, id |-> a.id]
                        : a \in {x \in identified : x.type \in AlpacaTypes \ {"name_change"}}},
         asserted |-> {a.id : a \in identified},
         issues |->
            (IF Repeats(all) # {} THEN {"duplicate_company_action"} ELSE {})
              \cup (IF \E o \in first : AlpacaActionListing(graph, o[2]) = {}
                    THEN {"identity_ambiguous"} ELSE {})
              \cup (IF \/ \E a \in identified : a.type \notin AlpacaTypes
                       \/ ~(ExpectedActions(graph, request) \subseteq {a.id : a \in identified})
                    THEN {"missing_company_action"} ELSE {})]

\* A plausible slip: any symbol the listing has in the window counts on any day.
AlpacaObservedAnyAlias(listing, request, day, rows) ==
    \E a \in PartitionAliases(listing, request) :
        \E r \in rows : r.symbol = a.symbol /\ r.day = day

\* Some symbol that was the listing's on the day has a bar of that day.
AlpacaObserved(listing, request, day, rows) ==
    \E a \in PartitionAliases(listing, request) :
        ActiveAlias(a, day) /\ \E r \in rows : r.symbol = a.symbol /\ r.day = day

-----------------------------------------------------------------------------
(* FinMind *)

\* A row of zeros is a day without trading: it takes its key and has no price.
FinMindPrices(graph, request, pages) ==
    LET rows == {o \in Occurrences(pages) : InWindow(o[2].day, request)}
    IN  [rows |-> DecodedPrices(graph, {o \in rows : o[2].value = "traded"}).rows,
         issues |-> DecodedPrices(graph, rows).issues]

FinMindObserved(listing, request, day, rows) ==
    \E a \in PartitionAliases(listing, request) :
        /\ ActiveAlias(a, day)
        /\ \E r \in rows : r.symbol = a.symbol /\ r.day = day /\ r.value = "traded"

\* An action's id is made of dataset, symbol and day.
FinMindId(row) == <<row.type, row.symbol, row.day>>

\* Rows of one dataset that are in the window and of the kind that is used.
FinMindActionRows(request, pages) ==
    {o \in Occurrences(pages) : o[2].used /\ InWindow(o[2].day, request)}

FinMindActions(graph, request, pages) ==
    LET wanted == FinMindActionRows(request, pages)
        identified == {o \in wanted : ListingFor(graph, o[2].symbol, o[2].day) # {}}
        ids == {FinMindId(o[2]) : o \in identified}
    IN  [records |-> {[listing |-> CHOOSE id \in ListingFor(graph, o[2].symbol, o[2].day) : TRUE,
                       day |-> o[2].day, kind |-> o[2].type, id |-> FinMindId(o[2])]
                        : o \in identified},
         asserted |-> ids,
         issues |->
            (IF Cardinality(identified) > Cardinality(ids)
             THEN {"duplicate_company_action"} ELSE {})
              \cup (IF \E o \in wanted \ identified : Known(graph, o[2].symbol)
                    THEN {"identity_ambiguous"} ELSE {})
              \cup (IF ~(ExpectedActions(graph, request) \subseteq ids)
                    THEN {"missing_company_action"} ELSE {})]

\* The symbol a delisting is reported under: that of the day, else the last.
DelistingAlias(listing, day) ==
    LET active == {a \in listing.aliases : ActiveAlias(a, day)}
        ended == {a \in listing.aliases : a.to < day}
        last == {a \in ended : a.to = Max({x.to : x \in ended})}
    IN  IF Cardinality(active) = 1 THEN active
        ELSE IF active = {} /\ ended # {} /\ Cardinality(last) = 1 THEN last ELSE {}

\* Every delisting the graph knows in the window is among the provider's.
LifecycleComplete(graph, request, pages) ==
    /\ graph.lifecycleComplete
    /\ \A l \in Requested(graph, request) : \A e \in l.lifecycle :
         e.status = "delisted" /\ InWindow(e.at, request) =>
             /\ DelistingAlias(l, e.at) # {}
             /\ \A a \in DelistingAlias(l, e.at) :
                  \E r \in Rows(pages) : r.symbol = a.symbol /\ r.day = e.at

\* The requested listings' own events, and every delisting the provider
\* reports in the window of a symbol the graph knows, requested or not.
FinMindLifecycle(graph, request, pages) ==
    LET reported == {r \in Rows(pages) : Known(graph, r.symbol) /\ InWindow(r.day, request)}
        Owners(symbol) == {l.id : l \in {x \in graph.listings :
                                    \E a \in x.aliases : a.symbol = symbol}}
    IN  [records |->
            UNION {{[listing |-> l.id, day |-> e.at, status |-> e.status]
                      : e \in {x \in l.lifecycle : x.at <= request.end}}
                        : l \in Requested(graph, request)}
              \cup {[listing |-> CHOOSE id \in Owners(r.symbol) : TRUE, day |-> r.day,
                     status |-> "delisted"]
                      : r \in {x \in reported : Cardinality(Owners(x.symbol)) = 1}},
         issues |-> IF \E r \in reported : Cardinality(Owners(r.symbol)) # 1
                    THEN {"identity_ambiguous"} ELSE {}]

-----------------------------------------------------------------------------
(* The partition a collection amounts to *)

ReferenceIssues(request, lifecycleVerified, actionsVerified) ==
    (IF lifecycleVerified THEN {} ELSE {"identity_ambiguous"})
      \cup (IF actionsVerified THEN {} ELSE {"missing_company_action"})
      \cup (IF request.revision = "correction" THEN {"correction_requires_review"} ELSE {})

KnownEvents(graph, request) ==
    UNION {{[listing |-> l.id, day |-> e.at, status |-> e.status] : e \in l.lifecycle}
              : l \in Requested(graph, request)}

\* The calendar member counts when it is exact and reaches both ends of the
\* window; the member with the actions always does.
AlpacaPartition(s, request, got) ==
    LET sessions == Rows(got.calendar)
        exact == \E expected \in ExpectedSessions(s.calendars, request) : sessions = expected
        prices == DecodedPrices(s.graph, Occurrences(got.bars))
        actions == AlpacaActions(s.graph, request, got.actions)
    IN  [members |-> exact /\ \E first, last \in sessions :
                                 first.day <= request.start /\ request.end <= last.day,
         complete |-> exact /\ \A l \in Requested(s.graph, request), x \in sessions :
                                 AlpacaObserved(l, request, x.day, Rows(got.bars)),
         observed |-> Rows(got.bars) # {},
         prices |-> prices.rows,
         actions |-> actions.records,
         lifecycle |-> KnownEvents(s.graph, request),
         asserted |-> actions.asserted,
         issues |-> prices.issues \cup actions.issues
                      \cup ReferenceIssues(request, s.graph.lifecycleComplete,
                                           s.graph.actionsComplete)]

\* Days only: the provider does not say when a session closes.
FinMindPartition(s, request, got) ==
    LET days == {r.day : r \in {x \in Rows(got.dates) : InWindow(x.day, request)}}
        exact == \E expected \in ExpectedSessions(s.calendars, request) :
                     days = {x.day : x \in expected}
        traded == {r \in Rows(got.bars) : r.value = "traded"}
        actionPages == got.dividends \o got.splits
        reported == {FinMindId(o[2]) : o \in FinMindActionRows(request, actionPages)}
        actionsComplete == s.graph.actionsComplete
                             /\ ExpectedActions(s.graph, request) \subseteq reported
        lifecycleComplete == LifecycleComplete(s.graph, request, got.delistings)
        prices == FinMindPrices(s.graph, request, got.bars)
        actions == FinMindActions(s.graph, request, actionPages)
        events == FinMindLifecycle(s.graph, request, got.delistings)
    IN  [members |-> exact /\ actionsComplete /\ lifecycleComplete,
         complete |-> exact /\ \A l \in Requested(s.graph, request), d \in days :
                                 ListingActive(s.graph, l, d) =>
                                     FinMindObserved(l, request, d, traded),
         observed |-> traded # {},
         prices |-> prices.rows,
         actions |-> actions.records,
         lifecycle |-> events.records,
         asserted |-> actions.asserted,
         issues |-> prices.issues \cup actions.issues \cup events.issues
                      \cup ReferenceIssues(request, lifecycleComplete, actionsComplete)]

PartitionOf(s, request, got) ==
    IF s.provider = "alpaca" THEN AlpacaPartition(s, request, got)
                             ELSE FinMindPartition(s, request, got)

\* The decoder given the calendar evidence does not tolerate other sessions.
Decodable(s, request, got) ==
    s.provider = "finmind" /\ s.strict =>
        \A expected \in ExpectedSessions(s.calendars, request) :
            {x.day : x \in expected}
              = {r.day : r \in {x \in Rows(got.dates) : InWindow(x.day, request)}}

Listings(partition) ==
    {x.listing : x \in partition.prices}
      \cup {x.listing : x \in partition.actions \cup partition.lifecycle}

\* A past partition is published on a usable, qualified claim that covers it.
HistoryRefused(request) ==
    request.mode = "historical" /\ request.claim # "qualified"

QuarantineReasons ==
    {"bundle_member_incomplete_coverage", "incomplete_coverage", "published_current_only",
     "historical_evidence_unverified", "source_withdrawn", "identity_ambiguous",
     "missing_company_action", "duplicate_company_action", "correction_requires_review"}

\* Why a partition is not published, the first reason that applies.
QuarantineReason(request, p) ==
    LET checks == <<
            <<~p.members, "bundle_member_incomplete_coverage">>,
            <<~p.complete \/ ~p.observed, "incomplete_coverage">>,
            <<HistoryRefused(request) /\ request.claim = "current_only",
              "published_current_only">>,
            <<HistoryRefused(request), "historical_evidence_unverified">>,
            <<request.revision = "withdrawal", "source_withdrawn">>,
            <<"identity_ambiguous" \in p.issues, "identity_ambiguous">>,
            <<"missing_company_action" \in p.issues, "missing_company_action">>,
            <<"duplicate_company_action" \in p.issues, "duplicate_company_action">>,
            <<"correction_requires_review" \in p.issues, "correction_requires_review">>,
            <<~(Listings(p) \subseteq request.listings), "identity_ambiguous">>,
            <<Listings(p) # request.listings, "incomplete_coverage">> >>
        failing == {i \in DOMAIN checks : checks[i][1]}
    IN  IF failing = {} THEN None ELSE checks[Min(failing)][2]
=============================================================================
