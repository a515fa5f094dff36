SPECIFICATION Spec
CONSTANTS
    b1 = b1
    b2 = b2
    Bins = {b1, b2}
    NoBin = NoBin
    Transfers = {t1, t2}
    LineIds = {l1, l2, l3}
    NoLine = NoLine
    Requests = {r1, r2}
    Forms <- MCForms
SYMMETRY Symmetric
CHECK_DEADLOCK FALSE
INVARIANT
    ReceiptsMatchIssues
