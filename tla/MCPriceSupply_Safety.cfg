SPECIFICATION Spec
CONSTANTS
    dailyPrices = dailyPrices
    corporateActions = corporateActions
    t1 = t1
    t2 = t2
    None = None
    Workers = {w1, w2}
    Revisions = {r1}
    Names = {"pending", "engineering", "qualified"}
    MaxLifetime = 3
    Horizon = 1
    MaxCommands = 2
    Primary = dailyPrices
    Member = corporateActions
    Distributions <- MCDistributions
    Commands <- MCCommands
    Adapters <- OneAdapter
    Reader <- MCReader
INVARIANTS
    CheckpointBacked
    LiveCallsAreGranted
    QualifiedIsUsable
SYMMETRY WorkerSymmetry
CHECK_DEADLOCK FALSE
