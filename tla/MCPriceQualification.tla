------------------------- MODULE MCPriceQualification -------------------------
(* Instances of PriceQualification for TLC: one listing, histories of three *)
(* sessions before a label instead of twenty, and horizons of one and two.  *)
EXTENDS PriceQualification

CONSTANTS listed, url, t1, t2, alice, bob, carol, open, contract, licence

Priced(s) == [session |-> s, positive |-> TRUE]

\* An archive of sessions 1 to n; its prices are those of the set priced.
Archived(n, priced, from, until) ==
    [listing |-> listed, kind |-> "official_archive", reference |-> url,
     observed |-> 0, from |-> from, until |-> until, terms |-> licence,
     built |-> TRUE, complete |-> TRUE, calendar |-> 1,
     sessions |-> [i \in 1..n |-> i], coverage |-> <<1, n>>,
     prices |-> SelectSeq([i \in 1..n |-> Priced(i)], LAMBDA p : p.session \in priced),
     lifecycle |-> <<[on |-> 1, status |-> "active"]>>,
     symbols |-> <<[from |-> 1, to |-> n]>>, actions |-> <<>>]

Submitted(evidence) ==
    [evidence |-> evidence,
     calendar |-> [version |-> evidence.calendar, sessions |-> evidence.sessions,
                   source |-> url],
     reference |-> [listing |-> evidence.listing, symbols |-> evidence.symbols,
                    lifecycle |-> evidence.lifecycle, actions |-> evidence.actions,
                    source |-> url]]

Whole == Submitted(Archived(4, 1..4, 0, 2))
NoEndpoint == Submitted(Archived(4, 1..3, 0, 2))
\* The platform's own observation, of evidence that names no rule versions.
Observed == Submitted([Archived(4, 1..4, 0, 3) EXCEPT
                           !.kind = "platform_observation", !.reference = Platform,
                           !.built = FALSE])
\* A price the calendar has no session for.
OffCalendar == [Whole EXCEPT !.calendar.sessions = <<1, 2, 3>>]

SourcePolicy(id, access) ==
    [id |-> id, access |-> access, members |-> {id}, urls |-> <<url>>, terms |-> licence]
MCPolicies == {SourcePolicy(open, "open_data_terms"),
               SourcePolicy(contract, "engineering_contract")}
MCSubmissions == {Whole, NoEndpoint, Observed, OffCalendar}
MCManifestUrls ==
    [access \in {"open_data_terms", "zero_fee_plan", "engineering_contract"} |-> {url}]
SettingOf(used, documents, deployed, files, commands, gated) ==
    [traces |-> used, documents |-> documents, policies |-> deployed,
     breakable |-> files, commands |-> commands, gates |-> gated]
\* Two commands at once on one history; every kind of document, with files
\* that change or disappear; policies put in force one after the other.
MCSettings ==
    {SettingOf({t1, t2}, {Whole}, {SourcePolicy(open, "open_data_terms")}, {}, 4, 0),
     SettingOf({t1}, MCSubmissions, {SourcePolicy(open, "open_data_terms")},
               {Whole.evidence, licence}, 2, 1),
     SettingOf({t1}, {Whole}, MCPolicies \cup {None}, {}, 3, 1)}
TraceSymmetry == Permutations(Traces)
=============================================================================
