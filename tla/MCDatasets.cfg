SPECIFICATION DatasetsSpec
CONSTANTS
    Buckets = {1, 2}
    Roots = {1, 2, 3}
    Games = {1, 2}
    Records <- MCRecords
    Counts = {0, 1, 2, 3}
    BlunderThreshold = 3
    BlunderWindow = 1
    MaxDoubt = 1
    MaxLength = 4
    Labelled <- MCLabelled
    Broken = Broken
    Bases <- MCBases
    Axes <- MCAxes
    Teacher = 4
    Students = {2}
    MaxLines = 3
    Positions <- MCPositions
    MaxFile = 2
    MinAbsCp = 10
INVARIANTS
    KeepsBest
    NoRootStarved
    BalanceIsEven
    HardMatchesMaterialized
    CommandsAgree
    CandidatesAreBest
    TighteningNeverKeepsMore
    ViewsAgree
    MergeLosesNothing
    ConflictsAddUp
