SPECIFICATION Spec
CONSTANTS
    Models <- MCModels
    ErrorNames <- MCErrorNames
    Statuses <- MCStatuses
INVARIANT TypeOK
INVARIANT OneErrorMapping
INVARIANT ResultsAreWellShaped
INVARIANT ErrorsKeepTheirMeaning
CHECK_DEADLOCK FALSE
