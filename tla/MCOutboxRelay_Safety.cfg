\* A rolling upgrade: two processes accept the events of the listing, one does
\* not yet.
SPECIFICATION Spec
CONSTANTS
    w1 = w1
    w2 = w2
    w3 = w3
    None = None
    Workers = {w1, w2, w3}
    Aggregates = {1}
    Listings = {1}
    Accepted <- RollingUpgrade
    MaxVersion = 2
    MaxClaims = 3
    MaxDisturbances = 2
SYMMETRY Upgraded
INVARIANTS
    TypeOK
    EffectsExactlyOnce
    ContiguousProjection
    DeliveredIsProjected
    DeliveredByLastClaim
    OneClaimHolder
PROPERTIES
    NoStepBack
    ImplementsOrderedDelivery
