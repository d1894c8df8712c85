CONSTANTS
    Ticket = {t1, t2, t3}
    Session = {s1, s2, s3}
    Lph = {l1}
    Persistent = TRUE
    MaxCrashes = 2
    NoOrder = NoOrder
    NoTicket = NoTicket
    NoSession = NoSession
    NoReceipt = NoReceipt
    Idle = Idle

SPECIFICATION Spec
SYMMETRY Symmetry

INVARIANT TicketSpentByOneSession
INVARIANT StatusIsBacked
INVARIANT RetryAnswered
INVARIANT DeleteResumable
PROPERTY StatusOnlyAdvances
