\* Two candidates.
SPECIFICATION Spec
CONSTANTS
    c1 = c1
    c2 = c2
    e1 = e1
    e2 = e2
    None = None
    Candidates = {c1, c2}
    Evidence = {e1, e2}
    Profile <- SameProfile
    RequiredShadows = 2
    Validity = 2
    TicksPerDay = 1
    Lookahead = 0
    Limits <- FewSetbacks
    MaxTime = 2
SYMMETRY Names
CHECK_DEADLOCK FALSE
INVARIANTS
    TypeOK
    PromotionIsVetted
    RejectionIsFinal
    BootstrapIsClosed
    ProjectionAgrees
PROPERTIES
    ImplementsServingHistory
