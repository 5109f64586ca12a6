SPECIFICATION MCSpec
CONSTANTS
    None = None
    NoReport = NoReport
    Counts = {0, 1, 3, 7}
    GroupKeys = {k1, k2, k3}
    StrayPaths = {p1}
    Amounts = {0, 20}
    Factors = {None, 0, 4499}
    Levels = {0, 1, 7, 60, 251}
    MaxSaves = 2
INVARIANTS
    TypeOK
    ShortfallIsExplained
    PillarsMatchProgress
    FiguresAddUp
    ReportFollowsDocument
    TotalRateIsBetween
    VetoBoundsGrade
PROPERTIES
    FillingNeverLowers
    WorseNeverScoresBetter
CHECK_DEADLOCK FALSE
