CONSTANTS
    Products = {p1, p2}
    ForServices = {p2}
    Categories = {c1}
    Services = {v1}
    Prices = {1, 2}
    Rows <- MCRows
    Switchable = {"coupons"}
    MaxEdits = 1
    Tasks = {t1, t2}
    MaxOrders = 2
    TopUpAmount = 3
    None = None
SPECIFICATION SerialSpec
SYMMETRY Symmetry
CONSTRAINT Bounded
INVARIANTS
    NothingOrphaned
    SumsAgree
PROPERTIES
    ReceiptGoesWhereAsked
CHECK_DEADLOCK FALSE
