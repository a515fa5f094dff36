SPECIFICATION Spec
CONSTANTS
    LineIds = {1, 2, 3}
    Qty <- MCQty
    TaskIds = {k1, k2, k3}
    Requests = {r1, r2}
SYMMETRY Symmetric
CHECK_DEADLOCK FALSE
INVARIANTS
    CompletionIsPosted
    OneTaskPerLine
    CompletedIsPutAway
