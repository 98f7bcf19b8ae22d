SPECIFICATION DatasetsSpec
CONSTANTS
    Buckets = {1, 2}
    Roots = {1, 2, 3}
    Games = {1, 2}
    Records <- MCRecords
    Counts = {0}
    BlunderThreshold = 3
    BlunderWindow = 1
    MaxDoubt = 1
    MaxLength = 0
    Labelled <- MCLabelled
    Broken = Broken
    Bases <- MCBases
    Axes <- MCAxes
    Teacher = 4
    Students = {2}
    MaxLines = 0
    Positions <- MCPositions
    MaxFile = 1
    MinAbsCp = 10
INVARIANTS
    EachPairIsCompared
