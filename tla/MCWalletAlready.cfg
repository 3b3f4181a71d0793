CONSTANTS
    Users = {u1, u2}
    Currencies = {"NGN", "USD"}
    Keys = {k1, k2}
    Amounts = {1}
    Reqs = {r1, r2, r3}
    NoAsset = NoAsset
    NoAccount = NoAccount
    RedisFaults = TRUE

SPECIFICATION Spec
SYMMETRY MCSymmetry

INVARIANT AlreadyMeansApplied

CHECK_DEADLOCK FALSE
