\* The invalidating paths of the wallet service, concurrent with readers of
\* the wallet, the profile and the rates snapshot, with Redis Get, Set and
\* Delete errors and one change of the upstream rates.
CONSTANTS
    Users = {u1, u2}
    Readers = {r1, r2}
    Muts = {m1, m2}
    MutKinds = {"fund", "swap", "transfer", "withdraw", "verify"}
    NoEntry = NoEntry
    RedisFaults = TRUE
    RatesUpdates = 1
SPECIFICATION MCLiveSpec
INVARIANTS StaleOnlyByRace
\* No SYMMETRY (a liveness property): MCLiveSpec orders the readers instead.
 
\* Every request ends; the system then only waits for TTLs and stops.
CHECK_DEADLOCK FALSE
