SPECIFICATION Bounded
CONSTANTS
    Orders = {"o1", "o2"}
    Amount <- MCAmount
    ProductOf <- MCProduct
    TypeOf <- MCType
    MethodOf <- MCMethod
    Gateways = {g1, g2}
    Hours = 2
    Openings <- MCOpenings
    Horizon = 2
    Typed <- MCTyped
    None = None
INVARIANTS
    FiguresAgree
    SalesInTheirMonth
    RangeAsTyped
SYMMETRY Symmetry
