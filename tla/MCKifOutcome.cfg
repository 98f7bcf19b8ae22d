SPECIFICATION Spec
CONSTANTS
    Dests = {1, 2}
    ExtractConfigs <- MCExtractConfigs
    Budgets <- MCBudgets
    Cases <- MCCases
    Unlimited = Unlimited
PROPERTIES
    OutcomeIsMainlines
CHECK_DEADLOCK FALSE
