\* Safety of deposits, the event pipeline and withdrawals under every fault
\* the code meets: Redis errors, gateway timeouts, a worker crash and one
\* re-post, within the 24h dedup window (withdrawal_unreconciled reaches what expiry does).
CONSTANTS
    Users = {u1}
    Currencies = {"NGN"}
    Charges = {c1}
    Wds = {w1}
    Keys = {c1, w1}
    Amounts = {1}
    NoAsset = NoAsset
    NoJob = NoJob
    RedisFaults = TRUE
    GatewayTimeouts = TRUE
    DedupExpires = FALSE
    MaxReposts = 1
    MaxCrashes = 1
SPECIFICATION Spec
SYMMETRY MCSymmetry
INVARIANTS TypeOK LedgerBalanced
PROPERTY AbstractSpec
\* The withdrawal request and the gateway's events are finite; once they
\* are all handled the system idles.
CHECK_DEADLOCK FALSE
