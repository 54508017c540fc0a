\* A listing with two versions, and a forecast batch that nobody accepts before
\* it in the relay's order.
SPECIFICATION FairSpec
CONSTANTS
    w1 = w1
    w2 = w2
    w3 = w3
    None = None
    Workers = {w1, w2}
    Aggregates = {1, 2}
    Listings = {2}
    Accepted <- FirstRefused
    MaxVersion = 2
    MaxClaims = 3
    MaxDisturbances = 1
PROPERTIES
    EventuallySettled
