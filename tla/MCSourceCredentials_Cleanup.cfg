\* One operator that comes back and one ingest; one of the secrets expires, one
\* failure.
SPECIFICATION FairSpec
CONSTANTS
    o1 = o1
    o2 = o2
    g1 = g1
    g2 = g2
    b1 = b1
    work1 = work1
    None = None
    Operators = {o1}
    Works = {work1}
    Refs = {g1, g2}
    Genuine = {g1, g2}
    Mortal = {g2}
    MaxVersions = 5
    MaxDisturbances = 1
INVARIANTS
    LeaseOfValidatedPin
PROPERTIES
    QueuedIsRemoved
