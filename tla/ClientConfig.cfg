SPECIFICATION Spec
CONSTANTS
    Models = {"ScheduledEmailPage"}
    ErrorNames = {"validation_error"}
    Statuses = {200, 422}
    k1 = k1
    k2 = k2
    h1 = h1
    c1 = c1
    c2 = c2
    keyA = keyA
    keyB = keyB
    home = home
    away = away
    DefaultOrigin = home
    Origins = {home, away}
    Clients = {k1}
    CallerHttps = {h1}
    Untimed = {}
    Calls = {c1, c2}
    Keys = {keyA, keyB}
    Bases <- MCUrls
    Links <- MCUrls
    Args = {"encodable", "unencodable"}
    Envs <- MCEnvs
    Replies <- MCReplies
INVARIANT TypeOK
INVARIANT KeyStaysHome
INVARIANT ErrorsTellWhatWasSent
INVARIANT NoOrphanPool
SYMMETRY Symmetry
CHECK_DEADLOCK FALSE
