\* The limiter as Server.RateLimit wires it (a RedisQueue with a nil
\* client), with EXPIRE allowed to be lost: the user is never served again.
CONSTANTS
    Reqs = {r1, r2}
    Limit = 1
    NilClient = TRUE
    RedisFaults = FALSE
    ExpireLost = TRUE
    MaxCount = 3
SPECIFICATION LiveSpec
PROPERTY ServedAgain
CHECK_DEADLOCK FALSE
