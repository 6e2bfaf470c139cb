CONSTANTS
    v1 = v1
    v2 = v2
    i1 = i1
    i2 = i2
    Servers = {v1, v2}
    Inbounds = {i1, i2}
    ServerOf <- MCServerOf
    Products = {p1}
    Admins = {a1}
    Sessions = {s1}
    None = None
SPECIFICATION Spec
SYMMETRY Symmetry
CONSTRAINTS
    SyncAllAlone
    GapsAlone
    OtherServerOn
INVARIANTS
    WellFormed
    DryRunAgrees
PROPERTIES
    SyncKeepsOff
