------------------------ MODULE ProviderCollectionProofs ------------------------
(***************************************************************************)
(* Proofs about ProviderCollection, for every setup of a client, every     *)
(* request and whatever the provider answers.                              *)
(***************************************************************************)
EXTENDS ProviderCollection, FiniteSetTheorems, WellFoundedInduction, TLAPS

-----------------------------------------------------------------------------
(* The reason to quarantine.                                               *)

\* The first of finitely many reasons exists.
LEMMA MinIn ==
    ASSUME NEW n \in Nat, NEW S \in SUBSET (1..n), S # {}
    PROVE  Min(S) \in S
<1> DEFINE Below(s) == {k \in 1..n : k < s}
           T == {Below(s) : s \in S}
           R == StrictSubsetOrdering(1..n)
<1>1. T \subseteq FiniteSubsetsOf(1..n) /\ T # {}
  <2>1. IsFiniteSet(1..n)
    BY FS_Interval
  <2>2. ASSUME NEW s \in S
        PROVE  Below(s) \in SUBSET (1..n) /\ IsFiniteSet(Below(s))
    BY <2>1, FS_Subset
  <2> QED
    BY <2>2 DEF FiniteSubsetsOf
<1>2. \E x \in T : \A y \in T : ~(<<y, x>> \in R)
  <2>1. IsWellFoundedOn(R, FiniteSubsetsOf(1..n))
    BY FS_StrictSubsetOrderingWellFounded
  <2> HIDE DEF T, R
  <2> QED
    BY <1>1, <2>1, WFMin
<1>3. PICK s \in S : \A y \in S : ~(<<Below(y), Below(s)>> \in R)
  BY <1>2
<1>4. ASSUME NEW y \in S PROVE s <= y
  <2> SUFFICES ASSUME ~(s <= y) PROVE FALSE
    OBVIOUS
  <2>1. Below(y) \subseteq Below(s)
    OBVIOUS
  <2>2. y \in Below(s) /\ y \notin Below(y)
    OBVIOUS
  <2> QED
    BY <1>3, <2>1, <2>2 DEF StrictSubsetOrdering
<1>5. \E x \in S : \A y \in S : x =< y
  BY <1>4
<1> QED
  BY <1>5 DEF Min

\* A partition is published only if no reason applies.
LEMMA NoReason ==
    ASSUME NEW r, NEW p, QuarantineReason(r, p) = None
    PROVE  /\ p.members /\ p.complete
           /\ "identity_ambiguous" \notin p.issues
           /\ "missing_company_action" \notin p.issues
           /\ Listings(p) = r.listings
<1> DEFINE checks == <<
            <<~p.members, "bundle_member_incomplete_coverage">>,
            <<~p.complete \/ ~p.observed, "incomplete_coverage">>,
            <<HistoryRefused(r) /\ r.claim = "current_only", "published_current_only">>,
            <<HistoryRefused(r), "historical_evidence_unverified">>,
            <<r.revision = "withdrawal", "source_withdrawn">>,
            <<"identity_ambiguous" \in p.issues, "identity_ambiguous">>,
            <<"missing_company_action" \in p.issues, "missing_company_action">>,
            <<"duplicate_company_action" \in p.issues, "duplicate_company_action">>,
            <<"correction_requires_review" \in p.issues, "correction_requires_review">>,
            <<~(Listings(p) \subseteq r.listings), "identity_ambiguous">>,
            <<Listings(p) # r.listings, "incomplete_coverage">> >>
           failing == {i \in DOMAIN checks : checks[i][1]}
<1>1. DOMAIN checks = 1..11
  OBVIOUS
<1>2. \A i \in 1..11 : checks[i][2] \in QuarantineReasons
  BY DEF QuarantineReasons
<1>3. (IF failing = {} THEN None ELSE checks[Min(failing)][2]) = None
  BY Zenon DEF QuarantineReason
<1>4. failing = {}
  <2> HIDE DEF checks
  <2> SUFFICES ASSUME failing # {} PROVE FALSE
    OBVIOUS
  <2>1. failing \in SUBSET (1..11) /\ 11 \in Nat
    BY <1>1
  <2> HIDE DEF failing
  <2>2. Min(failing) \in 1..11
    BY <2>1, MinIn
  <2> QED
    BY <1>2, <1>3, <2>2, CollectionAssumption
<1>5. \A i \in 1..11 : ~checks[i][1]
  BY <1>1, <1>4, Zenon
<1>6. ~checks[1][1] /\ ~checks[2][1] /\ ~checks[6][1] /\ ~checks[7][1] /\ ~checks[11][1]
  <2> HIDE DEF checks
  <2> QED
    BY <1>5
<1> QED
  BY <1>6

-----------------------------------------------------------------------------
(* The listing a symbol meant on a day.                                    *)

\* A symbol that means some listing means exactly one, by an alias of that day.
LEMMA OneListing ==
    ASSUME NEW graph, IsFiniteSet(graph.listings), NEW symbol, NEW day,
           ListingFor(graph, symbol, day) # {}
    PROVE  /\ \E l \in graph.listings :
                 /\ ListingFor(graph, symbol, day) = {l.id}
                 /\ \E a \in l.aliases : a.symbol = symbol /\ ActiveAlias(a, day)
           /\ \A l \in graph.listings :
                 (\E a \in l.aliases : a.symbol = symbol /\ ActiveAlias(a, day)) =>
                    ListingFor(graph, symbol, day) = {l.id}
<1> DEFINE X == {l \in graph.listings :
                    \E a \in l.aliases : a.symbol = symbol /\ ActiveAlias(a, day)}
           ids == {l.id : l \in X}
<1>1. ListingFor(graph, symbol, day) = ids /\ Cardinality(ids) = 1
  BY DEF ListingFor
<1>2. IsFiniteSet(ids)
  <2>1. IsFiniteSet(X)
    BY FS_Subset
  <2> DEFINE f == [l \in X |-> l.id]
  <2>2. f \in Surjection(X, ids)
    BY DEF Surjection
  <2> HIDE DEF X, ids, f
  <2> QED
    BY <2>1, <2>2, FS_Surjection
<1>3. PICK id : ids = {id}
  <2> HIDE DEF ids
  <2> QED
    BY <1>1, <1>2, FS_Singleton
<1> QED
  BY <1>1, <1>3

-----------------------------------------------------------------------------
(* Decoded prices.                                                         *)

LEMMA RowOccurs ==
    ASSUME NEW pages
    PROVE  /\ \A r \in Rows(pages) : \E o \in Occurrences(pages) : o[2] = r
           /\ \A o \in Occurrences(pages) : o[2] \in Rows(pages)
<1>1. ASSUME NEW r \in Rows(pages)
      PROVE  \E o \in Occurrences(pages) : o[2] = r
  <2>1. PICK i \in DOMAIN pages : r \in pages[i]
    BY DEF Rows
  <2>2. <<i, r>> \in Occurrences(pages) /\ <<i, r>>[2] = r
    BY <2>1 DEF Occurrences
  <2> QED
    BY <2>2
<1>2. \A o \in Occurrences(pages) : o[2] \in Rows(pages)
  BY DEF Occurrences
<1> QED
  BY <1>1, <1>2

\* Every row is identified, or the partition has an identity issue.
LEMMA AllIdentified ==
    ASSUME NEW graph, NEW occurrences,
           "identity_ambiguous" \notin DecodedPrices(graph, occurrences).issues
    PROVE  \A o \in occurrences : ListingFor(graph, o[2].symbol, o[2].day) # {}
  BY DEF DecodedPrices

\* An identified row becomes the price of its listing on its day.
LEMMA RowDecoded ==
    ASSUME NEW graph, NEW occurrences, NEW o \in occurrences, NEW id,
           ListingFor(graph, o[2].symbol, o[2].day) = {id}
    PROVE  [listing |-> id, day |-> o[2].day] \in DecodedPrices(graph, occurrences).rows
<1> DEFINE identified == {x \in occurrences : ListingFor(graph, x[2].symbol, x[2].day) # {}}
           keys == {PriceKey(graph, x[2]) : x \in identified}
<1>1. DecodedPrices(graph, occurrences).rows =
         {[listing |-> CHOOSE i \in k[1] : TRUE, day |-> k[2]] : k \in keys}
  BY DEF DecodedPrices
<1>2. PICK k \in keys : k = <<{id}, o[2].day>>
  BY DEF PriceKey
<1>3. k[1] = {id} /\ k[2] = o[2].day
  BY <1>2
<1>4. (CHOOSE i \in k[1] : TRUE) = id
  BY <1>3
<1> HIDE DEF keys
<1> QED
  BY <1>1, <1>3, <1>4

PricedFrom(graph, occurrences, x) ==
    \E o \in occurrences : /\ ListingFor(graph, o[2].symbol, o[2].day) = {x.listing}
                           /\ x.day = o[2].day

\* Every price is of a row identified with its listing.
LEMMA PriceOfRow ==
    ASSUME NEW graph, NEW occurrences, IsFiniteSet(graph.listings)
    PROVE  \A x \in DecodedPrices(graph, occurrences).rows : PricedFrom(graph, occurrences, x)
<1> TAKE x \in DecodedPrices(graph, occurrences).rows
<1> DEFINE identified == {o \in occurrences : ListingFor(graph, o[2].symbol, o[2].day) # {}}
           keys == {PriceKey(graph, o[2]) : o \in identified}
<1>1. PICK k \in keys : x = [listing |-> CHOOSE i \in k[1] : TRUE, day |-> k[2]]
  BY DEF DecodedPrices
<1>2. PICK o \in identified : k = <<ListingFor(graph, o[2].symbol, o[2].day), o[2].day>>
  BY DEF PriceKey
<1>3. k[1] = ListingFor(graph, o[2].symbol, o[2].day) /\ k[2] = o[2].day
  BY <1>2
<1>4. PICK id : ListingFor(graph, o[2].symbol, o[2].day) = {id}
  <2>1. PICK symbol, day : symbol = o[2].symbol /\ day = o[2].day
    OBVIOUS
  <2>2. ListingFor(graph, symbol, day) # {}
    BY <2>1
  <2>3. \E l \in graph.listings : ListingFor(graph, symbol, day) = {l.id}
    BY <2>2, OneListing
  <2> QED
    BY <2>1, <2>3
<1>5. x.listing = id /\ x.day = o[2].day
  BY <1>1, <1>3, <1>4
<1> QED
  BY <1>2, <1>4, <1>5 DEF PricedFrom

\* The listing a row is identified with had the row's symbol on its day.
LEMMA IdentifiedMeans ==
    ASSUME NEW graph, IsFiniteSet(graph.listings), GraphValid(graph),
           NEW symbol, NEW day, NEW id, ListingFor(graph, symbol, day) = {id}
    PROVE  Means(Listing(graph, id), symbol, day)
<1>1. PICK l \in graph.listings :
          /\ ListingFor(graph, symbol, day) = {l.id}
          /\ \E a \in l.aliases : a.symbol = symbol /\ ActiveAlias(a, day)
  BY OneListing
<1>2. l.id = id
  BY <1>1
<1>3. Listing(graph, id) = l
  BY <1>2 DEF Listing, GraphValid
<1> QED
  BY <1>1, <1>3 DEF Means

\* Every requested listing is one of the graph's.
LEMMA RequestedKnown ==
    ASSUME NEW graph, NEW r, r.listings \subseteq Ids(graph)
    PROVE  Requested(graph, r) \subseteq graph.listings
<1>1. ASSUME NEW id \in r.listings PROVE Listing(graph, id) \in graph.listings
  <2>1. \E l \in graph.listings : l.id = id
    BY DEF Ids
  <2> QED
    BY <2>1 DEF Listing
<1> QED
  BY <1>1 DEF Requested

\* A row for a symbol of the listing is a price of the listing, if every row is
\* identified.
LEMMA ObservedPriced ==
    ASSUME NEW graph, IsFiniteSet(graph.listings),
           NEW all, NEW used \in SUBSET all,
           "identity_ambiguous" \notin DecodedPrices(graph, all).issues,
           NEW l \in graph.listings, NEW a \in l.aliases,
           NEW o \in used, NEW day, o[2].day = day, o[2].symbol = a.symbol,
           ActiveAlias(a, day)
    PROVE  [listing |-> l.id, day |-> day] \in DecodedPrices(graph, used).rows
<1>1. PICK symbol : symbol = o[2].symbol
  OBVIOUS
<1>2. ListingFor(graph, o[2].symbol, o[2].day) # {}
  BY AllIdentified
<1>3. ListingFor(graph, symbol, day) # {}
  BY <1>1, <1>2
<1>4. ListingFor(graph, symbol, day) = {l.id}
  BY <1>1, <1>3, OneListing
<1>5. PICK id : id = l.id
  OBVIOUS
<1>6. ListingFor(graph, o[2].symbol, o[2].day) = {id}
  BY <1>1, <1>4, <1>5
<1>7. [listing |-> id, day |-> o[2].day] \in DecodedPrices(graph, used).rows
  BY <1>6, RowDecoded
<1> QED
  BY <1>5, <1>7

-----------------------------------------------------------------------------
(* A partition with no reason to quarantine is whole.                      *)

\* What PublishedIsWhole says of a partition p of the answers g.
Whole(s, r, g, p) ==
    /\ \A calendar \in s.calendars : \A x \in calendar.sessions :
          InWindow(x.day, r) =>
             \A l \in Requested(s.graph, r) :
                 ListingActive(s.graph, l, x.day) => [listing |-> l.id, day |-> x.day] \in p.prices
    /\ \A x \in p.prices : \E b \in Rows(g.bars) :
          /\ b.day = x.day
          /\ s.provider = "finmind" => b.value = "traded"
          /\ Means(Listing(s.graph, x.listing), b.symbol, x.day)
    /\ \A e \in s.graph.expected :
          e.listing \in r.listings /\ InWindow(e.at, r) => e.id \in p.asserted
    /\ Listings(p) = r.listings

\* The only calendar says which sessions are expected.
LEMMA OnlyCalendar ==
    ASSUME NEW calendars, \A c, d \in calendars : c = d, NEW r,
           NEW expected \in ExpectedSessions(calendars, r),
           NEW calendar \in calendars
    PROVE  expected = {x \in calendar.sessions : InWindow(x.day, r)}
  BY DEF ExpectedSessions

LEMMA AlpacaWhole ==
    ASSUME NEW s \in Setups, s.provider = "alpaca", NEW r, NEW g,
           r.listings \subseteq Ids(s.graph),
           QuarantineReason(r, AlpacaPartition(s, r, g)) = None
    PROVE  Whole(s, r, g, AlpacaPartition(s, r, g))
<1> DEFINE p == AlpacaPartition(s, r, g)
           all == Occurrences(g.bars)
<1>1. /\ p.complete
      /\ "identity_ambiguous" \notin p.issues
      /\ "missing_company_action" \notin p.issues
      /\ Listings(p) = r.listings
  BY NoReason
<1>2. PICK graph : /\ graph = s.graph
                   /\ IsFiniteSet(graph.listings) /\ GraphValid(graph)
  BY CollectionAssumption
<1>3. "identity_ambiguous" \notin DecodedPrices(graph, all).issues
  BY <1>1, <1>2 DEF AlpacaPartition
<1>4. p.prices = DecodedPrices(graph, all).rows
  BY <1>2 DEF AlpacaPartition
<1>5. ASSUME NEW calendar \in s.calendars, NEW x \in calendar.sessions, InWindow(x.day, r),
             NEW l \in Requested(s.graph, r)
      PROVE  [listing |-> l.id, day |-> x.day] \in p.prices
  <2>1. \E expected \in ExpectedSessions(s.calendars, r) : Rows(g.calendar) = expected
    BY <1>1 DEF AlpacaPartition
  <2>2. \A c, d \in s.calendars : c = d
    BY CollectionAssumption
  <2>3. x \in Rows(g.calendar)
    BY <2>1, <2>2, <1>5, OnlyCalendar
  <2>4. AlpacaObserved(l, r, x.day, Rows(g.bars))
    BY <1>1, <2>3, <1>5 DEF AlpacaPartition
  <2>5. PICK a \in l.aliases, b \in Rows(g.bars) :
           ActiveAlias(a, x.day) /\ b.symbol = a.symbol /\ b.day = x.day
    BY <2>4 DEF AlpacaObserved, PartitionAliases
  <2>6. PICK o \in all : o[2] = b
    BY <2>5, RowOccurs
  <2>7. l \in graph.listings
    BY <1>2, <1>5, RequestedKnown
  <2>8. PICK day : day = x.day
    OBVIOUS
  <2>9. o[2].day = day /\ o[2].symbol = a.symbol /\ ActiveAlias(a, day)
    BY <2>5, <2>6, <2>8
  <2> HIDE DEF all
  <2>10. [listing |-> l.id, day |-> day] \in DecodedPrices(graph, all).rows
    BY <1>2, <1>3, <2>7, <2>9, ObservedPriced
  <2> QED
    BY <1>4, <2>8, <2>10
<1>6. ASSUME NEW x \in p.prices
      PROVE  \E b \in Rows(g.bars) : /\ b.day = x.day
                                     /\ Means(Listing(graph, x.listing), b.symbol, x.day)
  <2>1. x \in DecodedPrices(graph, all).rows
    BY <1>4
  <2>2. PICK o \in all : /\ ListingFor(graph, o[2].symbol, o[2].day) = {x.listing}
                         /\ x.day = o[2].day
    <3> HIDE DEF all, p
    <3>1. PricedFrom(graph, all, x)
      BY <1>2, <2>1, PriceOfRow
    <3> QED
      BY <3>1 DEF PricedFrom
  <2>3. PICK symbol, day, id : symbol = o[2].symbol /\ day = x.day /\ id = x.listing
    OBVIOUS
  <2>4. ListingFor(graph, symbol, day) = {id}
    BY <2>2, <2>3
  <2>5. Means(Listing(graph, id), symbol, day)
    BY <1>2, <2>4, IdentifiedMeans
  <2>6. o[2] \in Rows(g.bars)
    BY <2>2, RowOccurs
  <2>7. WITNESS o[2] \in Rows(g.bars)
  <2> QED
    BY <2>2, <2>3, <2>5
<1>7. ExpectedActions(s.graph, r) \subseteq p.asserted
  BY <1>1 DEF AlpacaPartition, AlpacaActions
<1>8. \A e \in s.graph.expected :
          e.listing \in r.listings /\ InWindow(e.at, r) => e.id \in p.asserted
  <2> HIDE DEF p
  <2> QED
    BY <1>7 DEF ExpectedActions
<1> HIDE DEF p
<1>9. Whole(s, r, g, p)
  BY <1>1, <1>2, <1>5, <1>6, <1>8 DEF Whole
<1> QED
  BY <1>9 DEF p

LEMMA FinMindWhole ==
    ASSUME NEW s \in Setups, s.provider = "finmind", NEW r, NEW g,
           r.listings \subseteq Ids(s.graph),
           QuarantineReason(r, FinMindPartition(s, r, g)) = None
    PROVE  Whole(s, r, g, FinMindPartition(s, r, g))
<1> DEFINE p == FinMindPartition(s, r, g)
           days == {x.day : x \in {y \in Rows(g.dates) : InWindow(y.day, r)}}
           traded == {x \in Rows(g.bars) : x.value = "traded"}
           all == {o \in Occurrences(g.bars) : InWindow(o[2].day, r)}
           used == {o \in all : o[2].value = "traded"}
<1>1. /\ p.complete
      /\ "identity_ambiguous" \notin p.issues
      /\ "missing_company_action" \notin p.issues
      /\ Listings(p) = r.listings
  BY NoReason
<1>2. PICK graph : /\ graph = s.graph
                   /\ IsFiniteSet(graph.listings) /\ GraphValid(graph)
  BY CollectionAssumption
<1>3. "identity_ambiguous" \notin DecodedPrices(graph, all).issues
  BY <1>1, <1>2 DEF FinMindPartition, FinMindPrices
<1>4. p.prices = DecodedPrices(graph, used).rows
  BY <1>2 DEF FinMindPartition, FinMindPrices
<1>5. ASSUME NEW calendar \in s.calendars, NEW x \in calendar.sessions, InWindow(x.day, r),
             NEW l \in Requested(s.graph, r), ListingActive(s.graph, l, x.day)
      PROVE  [listing |-> l.id, day |-> x.day] \in p.prices
  <2>1. PICK expected \in ExpectedSessions(s.calendars, r) : days = {y.day : y \in expected}
    BY <1>1 DEF FinMindPartition
  <2>2. \A c, d \in s.calendars : c = d
    BY CollectionAssumption
  <2>3. x \in expected
    BY <2>2, <1>5, OnlyCalendar
  <2>4. PICK day : day = x.day
    OBVIOUS
  <2>5. day \in days
    <3> HIDE DEF days
    <3> QED
      BY <2>1, <2>3, <2>4
  <2>6. \A m \in Requested(s.graph, r), d \in days :
            ListingActive(s.graph, m, d) => FinMindObserved(m, r, d, traded)
    BY <1>1, Zenon DEF FinMindPartition
  <2>7. FinMindObserved(l, r, day, traded)
    <3> HIDE DEF days, traded
    <3> QED
      BY <2>4, <2>5, <2>6, <1>5
  <2>8. PICK a \in l.aliases, b \in Rows(g.bars) :
           ActiveAlias(a, day) /\ b.symbol = a.symbol /\ b.day = day /\ b.value = "traded"
    BY <2>7 DEF FinMindObserved, PartitionAliases
  <2>9. PICK o \in Occurrences(g.bars) : o[2] = b
    BY <2>8, RowOccurs
  <2>10. l \in graph.listings
    BY <1>2, <1>5, RequestedKnown
  <2>11. o[2].day = day /\ o[2].symbol = a.symbol /\ o \in used
    BY <2>4, <2>8, <2>9, <1>5
  <2>12. used \in SUBSET all
    OBVIOUS
  <2> HIDE DEF all, used
  <2>13. [listing |-> l.id, day |-> day] \in DecodedPrices(graph, used).rows
    BY <1>2, <1>3, <2>8, <2>10, <2>11, <2>12, ObservedPriced
  <2> QED
    BY <1>4, <2>4, <2>13
<1>6. ASSUME NEW x \in p.prices
      PROVE  \E b \in Rows(g.bars) : /\ b.day = x.day /\ b.value = "traded"
                                     /\ Means(Listing(graph, x.listing), b.symbol, x.day)
  <2>1. x \in DecodedPrices(graph, used).rows
    BY <1>4
  <2>2. PICK o \in used : /\ ListingFor(graph, o[2].symbol, o[2].day) = {x.listing}
                          /\ x.day = o[2].day
    <3> HIDE DEF used, p
    <3>1. PricedFrom(graph, used, x)
      BY <1>2, <2>1, PriceOfRow
    <3> QED
      BY <3>1 DEF PricedFrom
  <2>3. PICK symbol, day, id : symbol = o[2].symbol /\ day = x.day /\ id = x.listing
    OBVIOUS
  <2>4. ListingFor(graph, symbol, day) = {id}
    BY <2>2, <2>3
  <2>5. Means(Listing(graph, id), symbol, day)
    BY <1>2, <2>4, IdentifiedMeans
  <2>6. o[2].value = "traded"
    BY <2>2
  <2>7. o[2] \in Rows(g.bars)
    BY <2>2, RowOccurs
  <2>8. WITNESS o[2] \in Rows(g.bars)
  <2> QED
    BY <2>2, <2>3, <2>5, <2>6
<1>7. ExpectedActions(s.graph, r) \subseteq p.asserted
  BY <1>1 DEF FinMindPartition, FinMindActions
<1>8. \A e \in s.graph.expected :
          e.listing \in r.listings /\ InWindow(e.at, r) => e.id \in p.asserted
  <2> HIDE DEF p
  <2> QED
    BY <1>7 DEF ExpectedActions
<1> HIDE DEF p
<1>9. Whole(s, r, g, p)
  BY <1>1, <1>2, <1>5, <1>6, <1>8 DEF Whole
<1> QED
  BY <1>9 DEF p

\* A partition of either provider.
LEMMA UnquarantinedWhole ==
    ASSUME NEW s \in Setups, NEW r, NEW g, r.listings \subseteq Ids(s.graph),
           QuarantineReason(r, PartitionOf(s, r, g)) = None
    PROVE  Whole(s, r, g, PartitionOf(s, r, g))
<1>1. s.provider \in {"alpaca", "finmind"}
  BY CollectionAssumption DEF Providers
<1>2. CASE s.provider = "alpaca"
  <2>1. PartitionOf(s, r, g) = AlpacaPartition(s, r, g)
    BY <1>2 DEF PartitionOf
  <2> QED
    BY <1>2, <2>1, AlpacaWhole
<1>3. CASE s.provider = "finmind"
  <2>1. PartitionOf(s, r, g) = FinMindPartition(s, r, g)
    BY <1>3 DEF PartitionOf
  <2> QED
    BY <1>3, <2>1, FinMindWhole
<1> QED
  BY <1>1, <1>2, <1>3

-----------------------------------------------------------------------------
(* The inductive invariant.                                                *)

\* A collection asks only for listings the graph knows.
CallOK ==
    /\ setup \in Setups
    /\ job = "idle" => result = None
    /\ job = "collect" /\ result = None => request.listings \subseteq Ids(setup.graph)

\* What is published is the partition of the answers, with no reason against it.
PublishedOK ==
    result # None /\ "partition" \in DOMAIN result =>
        /\ result.partition = PartitionOf(setup, request, got)
        /\ QuarantineReason(request, PartitionOf(setup, request, got)) = None
        /\ request.listings \subseteq Ids(setup.graph)

IInv == CallOK /\ PublishedOK /\ AcceptedKeyStaysValid

LEMMA Started == Init => IInv
  BY DEF Init, IInv, CallOK, PublishedOK, AcceptedKeyStaysValid

LEMMA RefusedResult ==
    \A status, reason : "partition" \notin DOMAIN Refused(status, reason)
  BY DEF Refused

LEMMA VerdictResult ==
    \A readiness, contract :
        /\ "partition" \notin DOMAIN Verdict(readiness, contract)
        /\ Verdict(readiness, contract).readiness = readiness
        /\ Verdict(readiness, contract).contract = contract
  BY DEF Verdict

LEMMA StepKeeps == IInv /\ [Next]_vars => IInv'
<1> SUFFICES ASSUME IInv, [Next]_vars PROVE IInv'
  OBVIOUS
<1> USE DEF IInv
<1>1. ASSUME CollectStarts PROVE IInv'
  <2>1. /\ job = "idle" /\ result = None /\ job' = "collect"
        /\ UNCHANGED <<setup, request, got, answered>>
    BY <1>1 DEF CollectStarts, CallOK
  <2>2. \/ result' = Refused("credential_required", "not_ready")
        \/ result' = Refused("error", "listing_missing")
        \/ result' = Refused("error", "alias_missing")
        \/ result' = None /\ request.listings \subseteq Ids(setup.graph)
    BY <1>1, <2>1 DEF CollectStarts, End
  <2>3. result' = None => request.listings \subseteq Ids(setup.graph)
    BY <2>2, CollectionAssumption DEF Refused
  <2>4. result' # None => "partition" \notin DOMAIN result'
    BY <2>2, RefusedResult
  <2> QED
    BY <2>1, <2>3, <2>4 DEF CallOK, PublishedOK, AcceptedKeyStaysValid
<1>2. ASSUME ProbeStarts \/ LiveProbeStarts PROVE IInv'
  <2>1. /\ result = None /\ result' = None /\ job' \in {"probe", "live"}
        /\ UNCHANGED <<setup, request, got, answered>>
    BY <1>2 DEF ProbeStarts, LiveProbeStarts, CallOK
  <2> QED
    BY <2>1 DEF CallOK, PublishedOK, AcceptedKeyStaysValid
<1>3. ASSUME NEW token, NEW content, Respond(content, token) PROVE IInv'
  <2>1. /\ job = "collect" /\ result = None
        /\ UNCHANGED <<setup, job, request, answered>>
    BY <1>3 DEF Respond, Asking, Running
  <2>2. result' = None \/ result' = Refused("error", "pagination")
    BY <1>3, <2>1 DEF Respond, End
  <2> QED
    BY <2>1, <2>2, RefusedResult DEF CallOK, PublishedOK, AcceptedKeyStaysValid
<1>4. ASSUME NEW status, CollectRefused(status) PROVE IInv'
  <2>1. /\ job = "collect" /\ result = None
        /\ UNCHANGED <<setup, job, request, got, answered>>
    BY <1>4 DEF CollectRefused, Asking, Running
  <2>2. "partition" \notin DOMAIN result'
    BY <1>4, RefusedResult DEF CollectRefused, End, RefusalOf
  <2> QED
    BY <2>1, <2>2 DEF CallOK, PublishedOK, AcceptedKeyStaysValid
<1>5. ASSUME CollectFails PROVE IInv'
  <2>1. /\ job = "collect" /\ result = None
        /\ UNCHANGED <<setup, job, request, got, answered>>
    BY <1>5 DEF CollectFails, Asking, Running
  <2>2. "partition" \notin DOMAIN result'
    BY <1>5, RefusedResult DEF CollectFails, End
  <2> QED
    BY <2>1, <2>2 DEF CallOK, PublishedOK, AcceptedKeyStaysValid
<1>6. ASSUME Conclude PROVE IInv'
  <2> DEFINE p == PartitionOf(setup, request, got)
             reason == QuarantineReason(request, p)
  <2>1. /\ job = "collect" /\ result = None
        /\ UNCHANGED <<setup, job, request, got, answered>>
    BY <1>6 DEF Conclude, Running
  <2>2. \/ result' = Refused("error", "sessions")
        \/ result' = Refused("quarantined", reason)
        \/ result' = [status |-> "published", partition |-> p] /\ reason = None
    BY <1>6 DEF Conclude, End
  <2>3. result' # None /\ "partition" \in DOMAIN result' =>
            result'.partition = p /\ reason = None
    <3> HIDE DEF p, reason
    <3> QED
      BY <2>2, RefusedResult
  <2> QED
    BY <2>1, <2>3 DEF CallOK, PublishedOK, AcceptedKeyStaysValid
<1>7. ASSUME NEW answer \in Statuses \cup {"right", "wrong", "unreadable"},
             ProbeAnswered(answer)
      PROVE  IInv'
  <2>1. /\ job = "probe" /\ result = None
        /\ UNCHANGED <<setup, job, request, got>>
        /\ answered' = (answer \in {"right", "wrong"})
        /\ result' = ProbeVerdict(answer)
    BY <1>7 DEF ProbeAnswered, Asking, Running, End
  <2>2. "partition" \notin DOMAIN result'
    BY <2>1, VerdictResult DEF ProbeVerdict
  <2>3. /\ answer \in {"right", "wrong"} => result'.readiness = "valid"
        /\ result'.contract = "passed" => answer = "right"
    BY <2>1, VerdictResult DEF ProbeVerdict, ContractReason
  <2> QED
    BY <2>1, <2>2, <2>3 DEF CallOK, PublishedOK, AcceptedKeyStaysValid
<1>8. ASSUME NEW answer, LiveRefused(answer) PROVE IInv'
  <2>1. /\ job = "live" /\ result = None
        /\ UNCHANGED <<setup, job, request, got, answered>>
    BY <1>8 DEF LiveRefused, Asking, Running
  <2>2. \/ result' = Verdict("validation_failed", "none")
        \/ result' = Verdict(ReadinessSoFar, ContractReason(setup.provider, answer))
    BY <1>8 DEF LiveRefused, End
  <2>3. /\ "partition" \notin DOMAIN result' /\ result'.contract # "passed"
        /\ result'.readiness \in {"validation_failed", ReadinessSoFar}
    BY <2>2, VerdictResult DEF ContractReason
  <2>4. /\ answered => ReadinessSoFar = "valid"
        /\ ~answered => ReadinessSoFar = "configured"
    BY DEF ReadinessSoFar
  <2> QED
    BY <2>1, <2>3, <2>4 DEF CallOK, PublishedOK, AcceptedKeyStaysValid
<1>9. ASSUME LiveWrong PROVE IInv'
  <2>1. /\ job = "live" /\ result = None /\ answered' = TRUE
        /\ UNCHANGED <<setup, job, request, got>>
        /\ result' = Verdict("valid", "schema_invalid")
    BY <1>9 DEF LiveWrong, Asking, Running, End
  <2> QED
    BY <2>1, VerdictResult DEF CallOK, PublishedOK, AcceptedKeyStaysValid
<1>10. ASSUME NEW token, LiveRight(token) PROVE IInv'
  <2>1. /\ job = "live" /\ result = None /\ answered' = TRUE
        /\ UNCHANGED <<setup, job, request, got>>
    BY <1>10 DEF LiveRight, Asking, Running
  <2>2. \/ result' = Verdict("valid", "schema_invalid")
        \/ result' = Verdict("valid", "passed")
        \/ result' = None
    BY <1>10, <2>1 DEF LiveRight, End
  <2> QED
    BY <2>1, <2>2, VerdictResult DEF CallOK, PublishedOK, AcceptedKeyStaysValid
<1>11. ASSUME UNCHANGED vars PROVE IInv'
  BY <1>11 DEF vars, CallOK, PublishedOK, AcceptedKeyStaysValid
<1> QED
  BY <1>1, <1>2, <1>3, <1>4, <1>5, <1>6, <1>7, <1>8, <1>9, <1>10, <1>11 DEF Next

-----------------------------------------------------------------------------
(* Theorems.                                                               *)

\* Every collection published came of answers with nothing against them, and the
\* verdict on a key never forgets that it was accepted.
LEMMA Invariance == Spec => []IInv
<1>1. Init => IInv
  BY Started
<1>2. IInv /\ [Next]_vars => IInv'
  BY StepKeeps
<1> QED
  BY <1>1, <1>2, PTL DEF Spec

\* Whatever the provider answers, in whatever pages, what a collection publishes
\* has a price for each session and active listing of the request, each price is
\* backed by a row of a symbol that was the listing's on the day, every expected
\* company action is there, and no other listing is touched: the decoders of both
\* providers and _quarantine_reason together see to it.
THEOREM PublishedWhole == Spec => []PublishedIsWhole
<1>1. IInv => PublishedIsWhole
  <2> SUFFICES ASSUME IInv, result # None, "partition" \in DOMAIN result
               PROVE  Whole(setup, request, got, result.partition)
    BY DEF PublishedIsWhole, Whole
  <2>1. /\ setup \in Setups /\ request.listings \subseteq Ids(setup.graph)
        /\ result.partition = PartitionOf(setup, request, got)
        /\ QuarantineReason(request, PartitionOf(setup, request, got)) = None
    BY DEF IInv, CallOK, PublishedOK
  <2>2. PICK s, r, g : s = setup /\ r = request /\ g = got
    OBVIOUS
  <2>3. s \in Setups /\ r.listings \subseteq Ids(s.graph)
    BY <2>1, <2>2
  <2>4. QuarantineReason(r, PartitionOf(s, r, g)) = None
    BY <2>1, <2>2
  <2>5. Whole(s, r, g, PartitionOf(s, r, g))
    BY <2>3, <2>4, UnquarantinedWhole
  <2> QED
    BY <2>1, <2>2, <2>5
<1> QED
  BY <1>1, Invariance, PTL

\* A key a provider has once answered with something readable is never found less
\* than valid but for an outright 401, a live probe nobody answered never finds it
\* valid, and the contract passes only for a key that was accepted
\* (_after_authentication, _probe_failure).
THEOREM KeyStaysAccepted == Spec => []AcceptedKeyStaysValid
<1>1. IInv => AcceptedKeyStaysValid
  BY DEF IInv
<1> QED
  BY <1>1, Invariance, PTL
=============================================================================
