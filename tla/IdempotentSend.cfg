SPECIFICATION FairSpec
CONSTANTS
    Models = {}
    ErrorNames <- MCErrorNames
    Statuses = {200, 409, 429, 500}
    s1 = s1
    s2 = s2
    s3 = s3
    s4 = s4
    k1 = k1
    p1 = p1
    p2 = p2
    Senders = {s1, s2, s3, s4}
    Keys = {k1}
    Payloads = {p1, p2}
    KeyArgOf <- MCKeyArgOf
    PayloadOf <- MCPayloadOf
    Drifting = {s3}
    TriesOf <- MCTriesOf
INVARIANT TypeOK
INVARIANT AtMostOncePerKey
INVARIANT EmailsAreForOwnMessage
INVARIANT ReplayFlagIsTrue
INVARIANT InvalidMeansNeverAccepted
PROPERTY EverySenderIsTold
PROPERTY SendsOnce
CHECK_DEADLOCK FALSE
