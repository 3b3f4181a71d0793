\* The paths that delete before they commit or do not delete at all.
CONSTANTS
    Users = {u1, u2}
    Readers = {r1, r2}
    Muts = {m1, m2}
    MutKinds = {"charge", "refund", "pin"}
    NoEntry = NoEntry
    RedisFaults = FALSE
    RatesUpdates = 1
SPECIFICATION Spec
INVARIANT StaleOnlyByRace
SYMMETRY MCSymmetry
\* Every request ends; the system then only waits for TTLs and stops.
CHECK_DEADLOCK FALSE
