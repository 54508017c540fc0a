CONSTANTS
    Setups <- MCSetups
    Requests <- MCRequests
    PagesOf <- MCPagesOf
    Tokens = {t1, t2}
    MaxPages = 2
    MaxProbePages = 2
    None = None

SPECIFICATION Spec

INVARIANTS
    PublishedIsWhole
    AcceptedKeyStaysValid

CHECK_DEADLOCK FALSE
