CONSTANTS
    Orders = {o1}
    Sessions = {s1, s2}
    None = None
SPECIFICATION SerialSpec
SYMMETRY Symmetry
INVARIANTS
    StatusIsExplained
    PaidInvoiceWasApproved
    SerialInStep
CHECK_DEADLOCK FALSE
