CONSTANTS
    u1 = u1
    u2 = u2
    o1 = o1
    o2 = o2
    o3 = o3
    Users = {u1, u2}
    Orders = {o1, o2, o3}
    Sessions = {s1, s2}
    None = None
    Buyer <- TwoBuyers
    Qualifying = {o1, o2, o3}
    FirstOnly = TRUE
    MaxAdjusts = 1
    MaxCrashes = 1
SPECIFICATION Spec
INVARIANTS
    PayoutsAddUp
    DeliveryEarns
PROPERTIES
    ImplementsBook
SYMMETRY Symmetry
CHECK_DEADLOCK FALSE
