CONSTANTS
    listed = listed
    url = url
    t1 = t1
    t2 = t2
    alice = alice
    bob = bob
    carol = carol
    open = open
    contract = contract
    licence = licence
    Anchor = 2
    Horizons = {1}
    Platform = Platform
    Traces = {t1, t2}
    Listings = {listed}
    Submissions <- MCSubmissions
    Policies <- MCPolicies
    Principals = {alice, bob, carol}
    Collectors = {alice}
    Governors = {alice, bob}
    Horizon = 2
    None = None
    TermsContents = {licence}
    Archive = Archive
    ManifestUrls <- MCManifestUrls
    ComposedAt = {1}
    Settings <- MCSettings

SPECIFICATION Spec

SYMMETRY TraceSymmetry

INVARIANT
    QueryAgrees

CHECK_DEADLOCK FALSE
