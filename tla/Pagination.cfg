SPECIFICATION FairSpec
CONSTANTS
    e1 = e1
    e2 = e2
    e3 = e3
    e4 = e4
    e5 = e5
    Items = {e1, e2, e3, e4, e5}
    PageSize = 2
    StartPages = {1, 2}
    MaxChanges = 2
INVARIANT TypeOK
INVARIANT WalksInOrder
INVARIANT NothingMissingUntold
INVARIANT NothingTwice
PROPERTY WalkEnds
PROPERTY NeverTurnsBack
PROPERTY FetchesLazily
CHECK_DEADLOCK FALSE
