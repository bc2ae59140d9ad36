SPECIFICATION Spec
CONSTANTS
    w1 = w1
    w2 = w2
    Ids = {w1, w2}
    KnownTags <- MCKnownTags
    Events <- MCEvents
    Tolerance = 1
    MaxSkew = 2
    RetryFor = 1
    Keep = 3
    Horizon = 6
INVARIANT ActsOncePerEvent
INVARIANT VerifiesWhatWasSigned
INVARIANT NewEventsAreNotRefused
SYMMETRY Symmetry
CHECK_DEADLOCK FALSE
