\* Safety: a download, a deletion, and a third ticket: a reinstallation or another run.
CONSTANTS
    Ticket = {t1, t2, t3}
    Session = {s1, s2, s3}
    Lph = {l1, l2}
    Persistent = TRUE
    MaxCrashes = 0
    NoOrder = NoOrder
    NoTicket = NoTicket
    NoSession = NoSession
    NoReceipt = NoReceipt
    Idle = Idle
    Ops = {"download", "delete", "reinstall"}
    MaxExpired = 0
    MaxQueue = 2
    NoCall = NoCall
    NoRequest = NoRequest

SPECIFICATION Spec

INVARIANT TypeOK
INVARIANT DeviceNeverAhead
INVARIANT LiveProfileIsInstalled
INVARIANT PendingBelongsToRow
