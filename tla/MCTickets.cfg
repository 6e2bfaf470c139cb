CONSTANTS
    Tasks = {t1, t2}
    Staff = {a1, a2}
    MaxTickets = 1
    Reopening = TRUE
    None = None
SPECIFICATION SerialSpec
SYMMETRY Symmetry
INVARIANTS
    BallSide
PROPERTIES
    WakesOnlyInFlight
CHECK_DEADLOCK FALSE
