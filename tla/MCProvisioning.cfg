CONSTANTS
    Orders = {o1}
    Sessions = {s1, s2}
    None = None
    Duration = 1
    MaxTime = 2
    MaxCrashes = 1
    MaxMinted = 2
SPECIFICATION LiveSpec
INVARIANTS
    IdentityMatches
    DeliveredWasConfirmed
PROPERTIES
    Settles
