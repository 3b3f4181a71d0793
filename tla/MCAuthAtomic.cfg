\* One registration: the user, wallet and asset statements can fail apart.
CONSTANTS
    Emails = {e1}
    Regs = {g1}
    Rots = {}
    MaxTime = 0
SPECIFICATION Spec
INVARIANT UserHasWallet
\* Requests are finite; once all are answered the system idles.
CHECK_DEADLOCK FALSE
