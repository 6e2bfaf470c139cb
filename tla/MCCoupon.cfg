CONSTANTS
    o1 = o1
    o2 = o2
    user1 = user1
    Coupons = {c1}
    Orders = {o1, o2}
    Sessions = {s1, s2}
    Terms <- MCTerms
    Buyer <- MCBuyer
    Price <- MCPrice
    None = None
    MaxCrashes = 1
SPECIFICATION Spec
SYMMETRY Symmetry
INVARIANTS
    CountIsUsages
    UsedWasPaid
    ConsumedUnlessCrashed
