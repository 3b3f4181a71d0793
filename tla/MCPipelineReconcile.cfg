\* Without any fault, a withdrawal row does not follow its transfer.
CONSTANTS
    Users = {u1}
    Currencies = {"NGN"}
    Charges = {c1}
    Wds = {w1}
    Keys = {c1, w1}
    Amounts = {1}
    NoAsset = NoAsset
    NoJob = NoJob
    RedisFaults = FALSE
    GatewayTimeouts = FALSE
    DedupExpires = FALSE
    MaxReposts = 0
    MaxCrashes = 0
SPECIFICATION LiveSpec
PROPERTY WithdrawalReconciled
\* The withdrawal request and the gateway's events are finite; once they
\* are all handled the system idles.
CHECK_DEADLOCK FALSE
