CONSTANTS
    Users = {u1, u2}
    Currencies = {"NGN", "USD"}
    Keys = {k1, k2}
    Amounts = {1}
    Reqs = {r1, r2, r3}
    NoAsset = NoAsset
    NoAccount = NoAccount
    RedisFaults = TRUE

SPECIFICATION Spec
SYMMETRY MCSymmetry

INVARIANT TypeOK
INVARIANT LedgerBalanced
INVARIANT NoOrphanLock

\* Sound for this PROPERTY: the abstract ledger is itself symmetric in
\* users, keys and requests.
PROPERTY AbstractSpec

\* Every request is answered after finitely many steps; once all are, the
\* server idles: the end of the behaviour is not a deadlock.
CHECK_DEADLOCK FALSE
