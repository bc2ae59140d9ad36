SPECIFICATION Spec
CONSTANTS
    Models = {"ScheduledEmailPage"}
    ErrorNames = {"validation_error"}
    Statuses = {200, 422}
    k1 = k1
    k2 = k2
    h1 = h1
    c1 = c1
    c2 = c2
    keyA = keyA
    keyB = keyB
    home = home
    away = away
    DefaultOrigin = home
    Origins = {home, away}
    Clients = {k1}
    CallerHttps = {}
    Untimed = {}
    Calls = {c1}
    Keys = {keyA}
    Bases <- MCMalformed
    Links = {}
    Args = {"encodable"}
    Envs <- MCOneEnv
    Replies <- MCTwoReplies
INVARIANT MalformedUrlIsAConnectionError
CHECK_DEADLOCK FALSE
