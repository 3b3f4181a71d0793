\* Deposits settle: weak fairness of the worker loop and of the gateway's
\* re-posting; dedup keys expire, two re-posts, no Redis error, no crash.
\* Two charges share the queue; withdrawals are left out (they only add
\* other jobs to the same FIFO queue, checked for safety in MCPipeline.cfg).
CONSTANTS
    Users = {u1}
    Currencies = {"NGN"}
    Charges = {c1, c2}
    Wds = {}
    Keys = {c1, c2}
    Amounts = {1}
    NoAsset = NoAsset
    NoJob = NoJob
    RedisFaults = FALSE
    GatewayTimeouts = FALSE
    DedupExpires = TRUE
    MaxReposts = 2
    MaxCrashes = 0
SPECIFICATION LiveSpec
PROPERTY ChargeEventuallySettled
\* The gateway's events are finite; once they are handled the system idles.
CHECK_DEADLOCK FALSE
