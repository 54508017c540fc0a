------------------------- MODULE MCProviderCollection -------------------------
(* Two listings: L1 traded as "a" on days 0 and 1 and as "b" since, L2 took    *)
(* the ticker "a" over on day 2.  Days 1 and 2 are sessions, day 3 is not.      *)
EXTENDS ProviderCollection

Alias(symbol, from, to) == [symbol |-> symbol, from |-> from, to |-> to]
Event(at, status) == [at |-> at, status |-> status]

L1 == [id |-> "L1", aliases |-> {Alias("a", 0, 1), Alias("b", 2, 9)},
       lifecycle |-> {Event(0, "active")}]
L2 == [id |-> "L2", aliases |-> {Alias("a", 2, 9)},
       lifecycle |-> {Event(2, "active"), Event(3, "delisted")}]

Graph(provider, complete) ==
    [listings |-> {L1, L2}, lifecycleComplete |-> complete, actionsComplete |-> complete,
     expected |-> {[id |-> IF provider = "alpaca" THEN "dividend-1"
                           ELSE <<"dividend", "b", 2>>,
                    listing |-> "L1", at |-> 2]}]

Session(day) == [day |-> day, close |-> "16:00"]
Calendar == [start |-> 1, end |-> 3, sessions |-> {Session(1), Session(2)}]

\* Complete evidence, and the candidate evidence the application builds with.
MCSetups ==
    {[provider |-> p, graph |-> Graph(p, TRUE), calendars |-> {Calendar}, strict |-> FALSE]
        : p \in Providers}
      \cup {[provider |-> "finmind", graph |-> Graph("finmind", TRUE),
             calendars |-> {Calendar}, strict |-> TRUE],
            [provider |-> "finmind", graph |-> Graph("finmind", FALSE), calendars |-> {},
             strict |-> FALSE],
            [provider |-> "alpaca", graph |-> Graph("alpaca", FALSE), calendars |-> {Calendar},
             strict |-> FALSE]}

Req(listings, start, end, mode, claim, revision) ==
    [listings |-> listings, start |-> start, end |-> end, mode |-> mode, claim |-> claim,
     revision |-> revision]

MCRequests ==
    {Req({"L1"}, 1, 2, "current", None, "original"),
     Req({"L1", "L2"}, 1, 2, "historical", "qualified", "original"),
     Req({"L1", "L2"}, 1, 2, "historical", "current_only", "original"),
     Req({"L1", "L2"}, 1, 2, "historical", None, "original"),
     Req({"L1", "L2"}, 1, 3, "current", None, "original"),
     Req({"L1", "L2"}, 1, 2, "current", None, "withdrawal"),
     Req({"L1", "L2"}, 1, 2, "current", None, "correction"),
     Req({"L1", "L2"}, 2, 2, "current", None, "original"),
     Req({"L2"}, 0, 1, "current", None, "original"),
     Req({"L1", "L3"}, 1, 2, "current", None, "original")}

Bar(symbol, day) == [symbol |-> symbol, day |-> day, value |-> "traded"]
NoTrade(symbol, day) == [symbol |-> symbol, day |-> day, value |-> "zeros"]
Action(id, type, symbol, day) ==
    [id |-> id, type |-> type, symbol |-> symbol, new |-> "b", day |-> day]
Row(type, symbol, day) == [type |-> type, symbol |-> symbol, day |-> day, used |-> TRUE]

Alpaca(what) ==
    CASE what = "bars" -> {{Bar("a", 1)}, {Bar("a", 1), Bar("a", 2)}, {Bar("b", 2)},
                           {Bar("a", 1), Bar("b", 2)}, {Bar("a", 2)}, {}}
      [] what = "actions" -> {{Action("dividend-1", "cash_dividend", "b", 2)},
                              {Action("rename", "name_change", "a", 2)},
                              {Action("split-2", "forward_split", "a", 2)},
                              {Action("odd", "merger", "b", 1)}}
      [] OTHER -> {{Session(1), Session(2)}, {Session(2)},
                   {Session(1), [day |-> 2, close |-> "13:00"]}}

FinMind(what, symbol) ==
    CASE what = "bars" /\ symbol = "a" -> {{Bar("a", 1)}, {Bar("a", 1), Bar("a", 2)},
                                           {NoTrade("a", 1), Bar("a", 2)}}
      [] what = "bars" /\ symbol # "a" -> {{Bar("b", 2)}, {Bar("b", 1), Bar("b", 2)}}
      [] what = "dates" -> {{Session(1), Session(2), Session(3)}, {Session(0), Session(1), Session(2)}}
      [] what = "dividends" /\ symbol = "b" -> {{Row("dividend", "b", 2)}, {}}
      [] what = "dividends" /\ symbol # "b" -> {{}, {Row("dividend", "a", 2)}}
      [] what = "delistings" -> {{[symbol |-> "a", day |-> 3]}, {}, {[symbol |-> "a", day |-> 2]}}
      [] OTHER -> {{}, {Row("split", "a", 1)}}

MCPagesOf(s, q) == IF s.provider = "alpaca" THEN Alpaca(q.what) ELSE FinMind(q.what, q.symbol)
=============================================================================
