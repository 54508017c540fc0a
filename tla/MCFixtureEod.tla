------------------------------ MODULE MCFixtureEod ------------------------------
(* Instances of FixtureEod for TLC.                                        *)
EXTENDS FixtureEod, TLC

Key(secret, to) ==
    [principal |-> "researcher", scopes |-> Fixture, environment |-> "local",
     classes |-> {"internal"}, classification |-> "none",
     issued |-> 0, expires |-> to, revoked |-> FALSE, secret |-> secret]

Setting(to, set, observed) ==
    [identity |-> Key("key", to), set |-> set, observed |-> observed]

\* A fixed time of observation, and a renewed key with the system clock and
\* one market suspended.
MCSettings == {Setting(1, "active", 0), Setting(2, "suspended", None)}

Command(key, trace, market, scenario) ==
    [key |-> key, trace |-> trace, market |-> market, cutoff |-> 0, scenario |-> scenario]

\* Two commands for one record, one key for two markets and for two scenarios.
MCCommands ==
    {Command("k1", "t1", "xtai-fixture-eod", "normal"),
     Command("k2", "t1", "xtai-fixture-eod", "normal"),
     Command("k2", "t2", "xtai-fixture-eod", "withdrawal"),
     Command("k1", "t1", "xnas-fixture-eod", "normal")}

Question(kind, market) ==
    [kind |-> kind, market |-> market, cutoff |-> 0, scenario |-> "normal"]
MCAsks == {Question("listing", "xnas-fixture-eod"), Question("predictions", "xtai-fixture-eod"),
           Question("history", "xnas-fixture-eod")}
WorkerSymmetry == Permutations(Workers)
=============================================================================
