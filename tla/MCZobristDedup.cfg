SPECIFICATION Spec
CONSTANTS
    Size = 3
    HandMax = 255
    Games <- MCHashed
    Unlimited = Unlimited
INVARIANTS
    DedupKeepsPositions
CHECK_DEADLOCK FALSE
