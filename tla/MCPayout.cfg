SPECIFICATION Spec
CONSTANTS
    v1 = v1  v2 = v2  p1 = p1  p2 = p2  d1 = d1  d2 = d2
    Vouchers = {v1}
    Runs = {p1, p2}
    Desks = {d1, d2}
    None = None
INVARIANTS OneLiveLine TwiceOnlyByCancel PaidByBank IInv
PROPERTIES ClosesOnlyOver
SYMMETRY Alike
CHECK_DEADLOCK FALSE
