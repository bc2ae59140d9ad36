SPECIFICATION FairSpec
CONSTANTS
    Models = {"ScheduledEmailPage"}
    ErrorNames = {"validation_error"}
    Statuses = {200, 422}
    k1 = k1
    k2 = k2
    h1 = h1
    c1 = c1
    c2 = c2
    keyA = keyA
    keyB = keyB
    home = home
    away = away
    DefaultOrigin = home
    Origins = {home, away}
    Clients = {k1, k2}
    CallerHttps = {h1}
    Untimed = {h1}
    Calls = {c1, c2}
    Keys = {keyA}
    Bases = {}
    Links = {}
    Args = {"encodable"}
    Envs <- MCOneEnv
    Replies <- MCTwoReplies
PROPERTY EveryCallReturns
INVARIANT OwnAnswer
INVARIANT NoHiddenRetry
INVARIANT OnlyOwnersClose
CHECK_DEADLOCK FALSE
