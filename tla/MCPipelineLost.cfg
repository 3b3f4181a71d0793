\* With Redis errors, or a worker that dies (or is abandoned at shutdown)
\* holding a job, a charge acknowledged with 200 is neither credited nor
\* dead-lettered.
CONSTANTS
    Users = {u1}
    Currencies = {"NGN"}
    Charges = {c1}
    Wds = {w1}
    Keys = {c1, w1}
    Amounts = {1}
    NoAsset = NoAsset
    NoJob = NoJob
    RedisFaults = TRUE
    GatewayTimeouts = FALSE
    DedupExpires = FALSE
    MaxReposts = 1
    MaxCrashes = 1
SPECIFICATION LiveSpec
PROPERTY ChargeEventuallySettled
\* The withdrawal request and the gateway's events are finite; once they
\* are all handled the system idles.
CHECK_DEADLOCK FALSE
