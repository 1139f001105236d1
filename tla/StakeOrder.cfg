SPECIFICATION OrderSpec
CONSTANTS
    Addresses = {1, 2, 3, 4, 5}
    MaxBalance = 2
INVARIANTS
    SortSelectsRichest
    ReplacementsAreExtreme
CHECK_DEADLOCK FALSE
