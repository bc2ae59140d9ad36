SPECIFICATION Spec
CONSTANTS
    Models = {"ScheduledEmailPage"}
    ErrorNames <- MCErrorNames
    Statuses = {200, 202, 422}
INVARIANT SentEmailHasAnId
CHECK_DEADLOCK FALSE
