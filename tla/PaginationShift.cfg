SPECIFICATION Spec
CONSTANTS
    e1 = e1
    e2 = e2
    e3 = e3
    e4 = e4
    e5 = e5
    Items = {e1, e2, e3}
    PageSize = 1
    StartPages = {1, 2}
    MaxChanges = 1
INVARIANT EveryMatchIsYielded
CHECK_DEADLOCK FALSE
