\* A restart between put_nullifier and put_session.
CONSTANTS
    Ticket = {t1, t2}
    Session = {s1, s2}
    Lph = {l1}
    Persistent = TRUE
    MaxCrashes = 1
    NoOrder = NoOrder
    NoTicket = NoTicket
    NoSession = NoSession
    NoReceipt = NoReceipt
    Idle = Idle

SPECIFICATION Spec

INVARIANT BoundSessionIsAuthenticated
