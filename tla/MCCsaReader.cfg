SPECIFICATION Spec
CONSTANTS
    Size = 4
    HandMax = 255
    Games <- MCGames
    Unlimited = Unlimited
INVARIANTS
    CheckIsReal
    SfenIsFaithful
    ReplayAgrees
CHECK_DEADLOCK FALSE
