SPECIFICATION Spec
CONSTANTS
    Models = {"ScheduledEmailPage"}
    ErrorNames <- MCErrorNames
    Statuses = {200, 422}
INVARIANT NoAnswerEscapes
CHECK_DEADLOCK FALSE
