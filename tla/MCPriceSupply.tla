----------------------------- MODULE MCPriceSupply -----------------------------
(* Instances of PriceSupply for TLC.                                       *)
EXTENDS PriceSupply, TLC

CONSTANTS dailyPrices, corporateActions, t1, t2

Key(principal, scopes, from, to, classification) ==
    [principal |-> principal, scopes |-> scopes, environment |-> "local",
     classes |-> {"internal", "licensed"}, classification |-> classification,
     issued |-> from, expires |-> to, revoked |-> FALSE, secret |-> principal]

MCReader == Key("reader", {Read}, 0, 3, "individual_non_commercial")
MCFirst == Key("adapter", {Collect}, 0, 1, "individual_non_commercial")
OneAdapter == {MCFirst}
MCDistributions == {dailyPrices, corporateActions}

Command(trace, feed, distribution, mode) ==
    [trace |-> trace, feed |-> feed, distribution |-> distribution, mode |-> mode]
MCCommands ==
    {Command(t1, "current", dailyPrices, "live_provider"),
     Command(t2, "historical", dailyPrices, "live_provider"),
     Command(t2, "historical", dailyPrices, "engineering_double")}
Resent == {Command(t1, "current", dailyPrices, "live_provider"),
           Command(t1, "current", corporateActions, "live_provider")}
WorkerSymmetry == Permutations(Workers)
=============================================================================
