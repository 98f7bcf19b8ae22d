SPECIFICATION PathsSpec
CONSTANTS
    Names = {x, y, z}
    Spellings = {plain}
    FileIds = {1, 2}
    MaxWrites = 2
INVARIANT OutputsAreApart
