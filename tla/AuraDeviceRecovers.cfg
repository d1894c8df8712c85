\* Liveness: a download or an operation and a deletion, and a restart of the server.
CONSTANTS
    Ticket = {t1, t2}
    Session = {s1, s2}
    Lph = {l1, l2}
    Persistent = TRUE
    MaxCrashes = 1
    NoOrder = NoOrder
    NoTicket = NoTicket
    NoSession = NoSession
    NoReceipt = NoReceipt
    Idle = Idle
    Ops = {"download", "enable", "delete"}
    MaxExpired = 1
    MaxQueue = 2
    NoCall = NoCall
    NoRequest = NoRequest

SPECIFICATION FairSpec

INVARIANT ResumeAnswered
PROPERTY DeleteConverges
