SPECIFICATION MCSpec
CONSTANTS
    None = None
    Cleared = Cleared
    Unknown = Unknown
    s1 = s1
    s2 = s2
    n1 = n1
    n2 = n2
    Years = {1, 2, 3, 4}
    ThisYear = 3
    Names = {n1, n2}
    Scopes = {s1, s2}
    ScopeYears <- MCScopeYears
    ScopeChanges <- MCScopeChanges
    Slots = {r1, r2}
    MaxAssessments = 4
    MaxTargets = 3
    MaxRequests = 2
SYMMETRY Interchangeable
INVARIANTS
    TypeOK
    ConflictIsExplained
    InversionIsExplained
    ScopesInsideSpan
    BaselineIsExplained
PROPERTIES
    FiguresMoveOneWay
CHECK_DEADLOCK FALSE
