\* Two devices, one of them in the trace index, and three runs of two tickets.
CONSTANTS
    e1 = e1
    e2 = e2
    Device = {e1, e2}
    Ticket = {t1, t2}
    Transaction = {x1, x2, x3}
    Opid = {o1, o2}
    curve_order = 3
    k <- MCk
    Indexed = {e1}
    NoDevice = NoDevice
    NoTicket = NoTicket
    NoRequest = NoRequest

SYMMETRY Symmetry
SPECIFICATION Spec
CHECK_DEADLOCK FALSE

INVARIANT TraceNamesSpender
INVARIANT TakenWithOneRequest
INVARIANT OneResponsePerOpid
