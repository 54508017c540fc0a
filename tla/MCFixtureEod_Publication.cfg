\* Two processes, three commands begun; processes differ in key, policy and clock.
SPECIFICATION Spec
CONSTANTS
    Workers = {w1, w2}
    Commands <- MCCommands
    Settings <- MCSettings
    Asks <- MCAsks
    Horizon = 1
    MaxCommands = 3
    MaxLifetime = 3
    Distributions = {}
    None = None
SYMMETRY WorkerSymmetry
INVARIANTS
    PublicationIsWhole
    LineageClosed
    AnswersAreRecords
    ReadsAreAudited
CHECK_DEADLOCK FALSE
