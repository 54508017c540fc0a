SPECIFICATION Spec
CONSTANTS
    dailyPrices = dailyPrices
    corporateActions = corporateActions
    t1 = t1
    t2 = t2
    None = None
    Workers = {w1, w2}
    Revisions = {r1}
    Names = {"qualified"}
    MaxLifetime = 3
    Horizon = 1
    MaxCommands = 2
    Primary = dailyPrices
    Member = corporateActions
    Distributions <- MCDistributions
    Commands <- Resent
    Adapters <- OneAdapter
    Reader <- MCReader
INVARIANT PublishedOncePerTrace
CHECK_DEADLOCK FALSE
