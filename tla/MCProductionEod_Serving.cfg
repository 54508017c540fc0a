\* Two runs at once, two batches, up to two assignments, any number of failures.
SPECIFICATION FairSpec
CONSTANTS
    r1 = r1
    r2 = r2
    b1 = b1
    b2 = b2
    k1 = k1
    k2 = k2
    t1 = t1
    t2 = t2
    None = None
    NextBatch = NextBatch
    Runs = {r1, r2}
    Batches = {b1, b2}
    Named = {b2}
    Cutoff <- Cutoffs
    Commands <- ThreeCommands
    MaxAssignments = 2
    MaxTime = 1
INVARIANTS
    TypeOK
    PublishedOnce
    EffectiveFrom
PROPERTIES
    ImplementsBatchServing
    EventuallyPublished
CHECK_DEADLOCK FALSE
