SPECIFICATION FilesSpec
CONSTANTS
    Sources = {"a/b", "a_b", "c"}
    Files = {"ab", "ab--1", "ab--2", "c--3"}
    Paths = {"ab", "ab--1", "ab--2", "c--3", "manifest"}
    Plain <- MCPlain
    Digest <- MCDigest
    Inputs <- MCInputs
    Targets <- MCTargets
    MaxOpen = 2
    MaxFaults = 2
    Stages = 2
    OutputCount <- MCOutputCount
    UsesInput = {1}
    Producers <- MCProducers
    v1 = v1
    v2 = v2
    Versions = {v1, v2}
    Unwritten <- MCUnwritten
    MaxEdits = 3
    MaxFailures = 3
    Names = {x, y, z}
    Spellings = {plain, alias}
    FileIds = {1, 2}
    MaxWrites = 2
INVARIANTS
    SplitIsComplete
    ManifestIsLast
    NoOutputLost
    FailureRestores
    VerifiedIsReproducible
    RunsOnCheckedInputs
    FailedCommitRestores
    InputsSurvive
