SPECIFICATION ReadAndLabelSpec
CONSTANTS
    Dests = {1, 2}
    ExtractConfigs <- MCExtractConfigs
    Budgets <- MCBudgets
    Cases <- MCCases
    Unlimited = Unlimited
    Records = 2
    Inputs <- MCInputs
    Configs <- MCConfigs
    MaxRuns = 2
INVARIANTS
    LinesOfPlay
    WalksAgree
    NoDuplicateRequests
    CacheAnswersTheRequest
PROPERTIES
    OnlyReplacedByItsLike
    ResumeSkipsCovered
CHECK_DEADLOCK FALSE
