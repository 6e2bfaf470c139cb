CONSTANTS
    Orders = {o1, o2}
    Licenses = {l1, l2}
    Sessions = {s1, s2}
    None = None
    MaxCrashes = 1
SPECIFICATION Spec
SYMMETRY Symmetry
INVARIANTS
    DeliveredWasSent
    OnlyCrashesDisclose
PROPERTIES
    AttachedForGood
