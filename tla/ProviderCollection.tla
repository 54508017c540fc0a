-------------------------- MODULE ProviderCollection --------------------------
(***************************************************************************)
(* One call of a provider client: the collection of a source partition, or *)
(* one of the two probes that validate a credential.  Each answer of the   *)
(* provider is a step, so the provider may change, refuse or repeat itself *)
(* between any two of them.  A collection ends in a decoded partition,     *)
(* published or quarantined, or in a refusal; PriceSupply takes it from    *)
(* there (Load, LoadRefused), SourceCredentials takes the verdict of a     *)
(* probe (Judge).                                                          *)
(***************************************************************************)
EXTENDS MarketReference

CONSTANTS
    Setups,         \* [provider, graph, calendars, strict] a client is built with
    Requests,       \* [listings, start, end, mode, revision, claim]
    PagesOf(_, _),  \* contents the provider may answer a query of a setup with
    Tokens,         \* page tokens the provider may answer with
    MaxPages,       \* _MAX_PAGES
    MaxProbePages   \* bound of the pagination probe

Providers == {"alpaca", "finmind"}

ASSUME CollectionAssumption ==
    /\ MaxPages \in Nat \ {0} /\ MaxProbePages \in Nat \ {0}
    /\ None \notin Tokens /\ None \notin QuarantineReasons
    /\ None \notin [status : {"credential_required", "error"},
                    reason : {"not_ready", "listing_missing", "alias_missing"}]
    /\ \A s \in Setups :
         /\ s.provider \in Providers /\ IsFiniteSet(s.graph.listings)
         /\ GraphValid(s.graph) /\ Unambiguous(s.graph)
         /\ \A c, d \in s.calendars : c = d
    /\ \A r \in Requests : r.start <= r.end /\ r.listings # {}

Statuses == {"401", "402", "403", "429", "500"}

VARIABLES
    setup,      \* of the client
    job,        \* "idle", "collect", "probe" or "live"
    request,    \* of a collection
    todo,       \* queries still to send, the one under way first
    page,       \* token of its next page
    seen,       \* tokens of its pages so far, the next one included
    got,        \* [what]: the pages answered to a collection
    answered,   \* the provider has answered the key with something readable
    result      \* what the call returns

vars == <<setup, job, request, todo, page, seen, got, answered, result>>

Query(what, symbol) == [what |-> what, symbol |-> symbol]
Each(what, symbols) == [i \in DOMAIN symbols |-> Query(what, symbols[i])]
Kinds == {"bars", "actions", "calendar", "dates", "dividends", "delistings", "splits"}
NoAnswer == [what \in Kinds |-> <<>>]

CollectQueries(s, r) ==
    LET symbols == SetToSeq(Symbols(s.graph, r))
    IN  IF s.provider = "alpaca"
        THEN <<Query("bars", None), Query("actions", None), Query("calendar", None)>>
        ELSE Each("bars", symbols) \o <<Query("dates", None)>> \o Each("dividends", symbols)
               \o <<Query("delistings", None), Query("splits", None)>>

\* The live probe asks for one known fact of every kind of answer; FinMind's
\* for a price of each listing of the pool.
LiveQueries(s) ==
    IF s.provider = "alpaca"
    THEN <<Query("bars", "regular"), Query("bars", "delisted"), Query("bars", "pages"),
           Query("actions", "dividend"), Query("actions", "name_change"),
           Query("calendar", None)>>
    ELSE Each("bars", SetToSeq({l.id : l \in s.graph.listings}))
           \o <<Query("dates", None), Query("dividends", None), Query("delistings", None),
                Query("splits", None)>>

Paged(s, j, q) ==
    /\ s.provider = "alpaca"
    /\ \/ j = "collect" /\ q.what \in {"bars", "actions"}
       \/ j = "live" /\ q.symbol = "pages"

Init ==
    /\ setup \in Setups /\ request \in Requests
    /\ job = "idle" /\ todo = <<>> /\ page = None /\ seen = {}
    /\ got = NoAnswer /\ answered = FALSE /\ result = None

Running(j) == job = j /\ result = None
Asking(j) == Running(j) /\ todo # <<>>
Refused(status, reason) == [status |-> status, reason |-> reason]
End(what) == result' = what /\ todo' = <<>> /\ page' = None /\ seen' = {}

-----------------------------------------------------------------------------
(* Starting a call *)

\* A credential that may be leased is needed, then every listing in the graph
\* and an alias for each.
CollectStarts ==
    /\ job = "idle" /\ job' = "collect"
    /\ \/ End(Refused("credential_required", "not_ready"))
       \/ IF ~(request.listings \subseteq Ids(setup.graph))
          THEN End(Refused("error", "listing_missing"))
          ELSE IF \E l \in Requested(setup.graph, request) : PartitionAliases(l, request) = {}
          THEN End(Refused("error", "alias_missing"))
          ELSE /\ todo' = CollectQueries(setup, request)
               /\ UNCHANGED <<page, seen, result>>
    /\ UNCHANGED <<setup, request, got, answered>>

ProbeStarts ==
    /\ job = "idle" /\ job' = "probe" /\ todo' = <<Query("bars", None)>>
    /\ UNCHANGED <<setup, request, page, seen, got, answered, result>>

LiveProbeStarts ==
    /\ job = "idle" /\ job' = "live" /\ todo' = LiveQueries(setup)
    /\ UNCHANGED <<setup, request, page, seen, got, answered, result>>

-----------------------------------------------------------------------------
(* Pages *)

Pages == Cardinality(seen) + 1    \* answered so far, with the one at hand

\* The next page is not asked for when its token was seen or pages are too many.
PageRefused(token, limit) == token \in seen \/ Pages >= limit

Advances == todo' = Tail(todo) /\ page' = None /\ seen' = {}

TurnsPage(token) == todo' = todo /\ page' = token /\ seen' = seen \cup {token}

-----------------------------------------------------------------------------
(* Answers to a collection *)

Respond(content, token) ==
    LET q == Head(todo)
    IN  /\ Asking("collect")
        /\ token # None => Paged(setup, job, q)
        /\ got' = [got EXCEPT ![q.what] = Append(@, content)]
        /\ IF token # None /\ PageRefused(token, MaxPages)
           THEN End(Refused("error", "pagination"))
           ELSE /\ IF token = None THEN Advances ELSE TurnsPage(token)
                /\ UNCHANGED result
        /\ UNCHANGED <<setup, job, request, answered>>

\* How a collection ends for each status the transport reports, which reports a
\* lost connection and an oversized answer as a status too.
RefusalOf(provider, status) ==
    IF status = "401" THEN Refused("credential_required", "authentication_failed")
    ELSE IF status = "429" \/ (status = "402" /\ provider = "finmind")
         THEN Refused("deferred", "rate_limited")
    ELSE Refused("unavailable", "provider_unavailable")

CollectRefused(status) ==
    /\ Asking("collect") /\ End(RefusalOf(setup.provider, status))
    /\ UNCHANGED <<setup, job, request, got, answered>>

\* An answer that cannot be read, that names a day twice in a calendar, that
\* repeats the key or that breaks off.
CollectFails ==
    /\ Asking("collect") /\ End(Refused("error", "schema"))
    /\ UNCHANGED <<setup, job, request, got, answered>>

\* Every answer is in: the partition is assembled, decoded and judged.
Conclude ==
    LET p == PartitionOf(setup, request, got)
        reason == QuarantineReason(request, p)
    IN  /\ Running("collect") /\ todo = <<>>
        /\ End(IF ~Decodable(setup, request, got) THEN Refused("error", "sessions")
               ELSE IF reason # None THEN Refused("quarantined", reason)
               ELSE [status |-> "published", partition |-> p])
        /\ UNCHANGED <<setup, job, request, got, answered>>

-----------------------------------------------------------------------------
(* Answers to a probe *)

Verdict(readiness, contract) == [readiness |-> readiness, contract |-> contract]

ContractReason(provider, answer) ==
    IF answer = "403" THEN "forbidden"
    ELSE IF answer = "429" \/ (answer = "402" /\ provider = "finmind") THEN "rate_limited"
    ELSE IF answer = "unreadable" THEN "schema_invalid" ELSE "unavailable"

\* The probe of one query takes any answer with status 200 for a valid key.
ProbeVerdict(answer) ==
    IF answer = "401" THEN Verdict("validation_failed", "none")
    ELSE IF answer = "right" THEN Verdict("valid", "passed")
    ELSE IF answer \in {"wrong", "unreadable"} THEN Verdict("valid", "schema_invalid")
    ELSE Verdict("configured", ContractReason(setup.provider, answer))

ProbeAnswered(answer) ==
    /\ Asking("probe") /\ End(ProbeVerdict(answer))
    /\ answered' = (answer \in {"right", "wrong"})
    /\ UNCHANGED <<setup, job, request, got>>

\* A plausible slip: a later query of a probe is judged like the first one.
ReadinessOfThisQuery == "configured"

\* A key that was accepted once stays valid whatever fails later, but for a 401.
ReadinessSoFar == IF answered THEN "valid" ELSE "configured"

LiveRefused(answer) ==
    /\ Asking("live")
    /\ End(IF answer = "401" THEN Verdict("validation_failed", "none")
           ELSE Verdict(ReadinessSoFar, ContractReason(setup.provider, answer)))
    /\ UNCHANGED <<setup, job, request, got, answered>>

LiveWrong ==
    /\ Asking("live") /\ End(Verdict("valid", "schema_invalid"))
    /\ answered' = TRUE
    /\ UNCHANGED <<setup, job, request, got>>

\* The pagination query must be answered in two pages or more.
LiveRight(token) ==
    LET q == Head(todo)
        paged == Paged(setup, "live", q)
    IN  /\ Asking("live")
        /\ token # None => paged
        /\ answered' = TRUE
        /\ \/ /\ token = None /\ paged /\ Pages < 2
              /\ End(Verdict("valid", "schema_invalid"))
           \/ /\ token = None /\ ~(paged /\ Pages < 2)
              /\ IF Len(todo) = 1 THEN End(Verdict("valid", "passed"))
                                  ELSE Advances /\ UNCHANGED result
           \/ /\ token # None /\ PageRefused(token, MaxProbePages)
              /\ End(Verdict("valid", "schema_invalid"))
           \/ /\ token # None /\ ~PageRefused(token, MaxProbePages)
              /\ TurnsPage(token) /\ UNCHANGED result
        /\ UNCHANGED <<setup, job, request, got>>

-----------------------------------------------------------------------------
Next ==
    \/ CollectStarts \/ ProbeStarts \/ LiveProbeStarts
    \/ \E token \in Tokens \cup {None} :
         \/ todo # <<>> /\ \E content \in PagesOf(setup, Head(todo)) : Respond(content, token)
         \/ LiveRight(token)
    \/ \E status \in Statuses : CollectRefused(status)
    \/ CollectFails \/ Conclude \/ LiveWrong
    \/ \E answer \in Statuses \cup {"right", "wrong", "unreadable"} : ProbeAnswered(answer)
    \/ \E answer \in Statuses \cup {"unreadable"} : LiveRefused(answer)

Spec == Init /\ [][Next]_vars

-----------------------------------------------------------------------------
(* Properties *)

Means(listing, symbol, day) ==
    \E a \in listing.aliases : a.symbol = symbol /\ ActiveAlias(a, day)

\* What is published is whole and is of nobody else: for each session of the
\* calendar in the window every requested listing that is active has a price
\* the provider gave for a symbol that was the listing's that day (FinMind's row
\* of zeros is no price), every price is of that kind, every expected company action is there, and nothing is of
\* a listing that was not requested.  The ticker one listing gave up and
\* another took is never spliced.  (collect, decode, _quarantine_reason)
PublishedIsWhole ==
    result # None /\ "partition" \in DOMAIN result =>
        LET p == result.partition
            Backed(id, day) == \E r \in Rows(got.bars) :
                /\ r.day = day
                /\ setup.provider = "finmind" => r.value = "traded"
                /\ Means(Listing(setup.graph, id), r.symbol, day)
        IN  /\ \A calendar \in setup.calendars : \A s \in calendar.sessions :
                 InWindow(s.day, request) =>
                    \A l \in Requested(setup.graph, request) :
                        ListingActive(setup.graph, l, s.day) =>
                            [listing |-> l.id, day |-> s.day] \in p.prices
            /\ \A x \in p.prices : Backed(x.listing, x.day)
            /\ \A e \in setup.graph.expected :
                 e.listing \in request.listings /\ InWindow(e.at, request) =>
                    e.id \in p.asserted
            /\ Listings(p) = request.listings

\* The verdict of a probe on the key: once the provider has answered it with
\* something readable nothing but an outright 401 makes it less than valid,
\* and the contract passes only if no query went wrong; a key that no query
\* got an answer for is neither.  (_after_authentication, _probe_failure)
AcceptedKeyStaysValid ==
    job \in {"probe", "live"} /\ result # None =>
        /\ answered => result.readiness \in {"valid", "validation_failed"}
        /\ ~answered /\ job = "live" => result.readiness # "valid"
        /\ result.contract = "passed" => answered /\ result.readiness = "valid"
=============================================================================
