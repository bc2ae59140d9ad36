SPECIFICATION Spec
CONSTANTS
    Models <- MCModels
    ErrorNames <- MCErrorNames
    Statuses = {200, 404, 422, 429, 500}
    Callers = {"sender", "mover"}
    EmailIds <- MCEmails
    Ids <- MCIds
    Pieces <- MCPieces
    Menu <- MCMenu
    CallsOf <- MCCallsOf
    Before <- MCBefore
    Horizon = 2
INVARIANT TypeOK
INVARIANT CanceledIsNeverSent
INVARIANT NotPendingIsFinal
INVARIANT OutcomesTellTheEffect
INVARIANT BatchCancelCoversTheBatch
INVARIANT AloneItIsObeyed
PROPERTY TouchesOnlyWhatItNames
PROPERTY MeetsItsPromise
CHECK_DEADLOCK FALSE
