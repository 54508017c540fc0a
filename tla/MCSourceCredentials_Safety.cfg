\* Two concurrent requests, a secret that the provider accepts and one that it
\* does not, two failures, no ingest.
SPECIFICATION Spec
CONSTANTS
    o1 = o1
    o2 = o2
    g1 = g1
    g2 = g2
    b1 = b1
    work1 = work1
    None = None
    Operators = {o1, o2}
    Works = {}
    Refs = {g1, b1}
    Genuine = {g1}
    Mortal = {}
    MaxVersions = 3
    MaxDisturbances = 2
SYMMETRY Requests
INVARIANTS
    TypeOK
    CurrentSecretStored
    NoSecretLeaks
    ValidIsGenuine
PROPERTIES
    ImplementsCredentialLifecycle
