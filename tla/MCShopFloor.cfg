SPECIFICATION Spec
CONSTANTS
    Ops = {o1, o2}
    Reports = {p1, p2}
    Goods = {1}
    Emits = {TRUE}
    Requests = {r1, r2}
    MaxBegun = 5
SYMMETRY Symmetric
CHECK_DEADLOCK FALSE
INVARIANTS
    ReportsCounted
    StatusFollowsLog
    DeletionReversed
    SerialBooks
PROPERTIES
    EndedStaysEnded
