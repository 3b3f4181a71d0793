\* Two registrations of one address, two refreshes, and logins, over three seconds (0..MaxTime).
CONSTANTS
    Emails = {e1}
    Regs = {g1, g2}
    Rots = {q1, q2}
    MaxTime = 2
SPECIFICATION Spec
INVARIANTS TypeOK TokenHandedOnce
PROPERTY ReplayRejected
SYMMETRY MCSymmetry
\* Requests and seconds are finite; once all are used the system idles.
CHECK_DEADLOCK FALSE
