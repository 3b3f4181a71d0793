\* One registered user, two refreshes and a logout over two seconds: a
\* refresh token is spent twice, or after its logout.
CONSTANTS
    Emails = {e1}
    Regs = {g1}
    Rots = {q1, q2}
    MaxTime = 1
SPECIFICATION Spec
PROPERTY RefreshSingleUse
CHECK_DEADLOCK FALSE
