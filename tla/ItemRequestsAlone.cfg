SPECIFICATION FlowSpec
CONSTANTS
    s1 = s1
    s2 = s2
    h1 = h1
    i1 = i1
    i2 = i2
    w1 = w1
    r1 = r1
    r2 = r2
    Session = {s1}
    Shelf = {h1}
    Item = {i1, i2}
    Warehouse = {w1}
    WarehouseOf <- OneWarehouse
    FirstShelves = {h1}
    MaxQuantity = 2
    Threshold = {1}
    MaxMoves = 3
    MaxLines = 2
    RequestId = {r1, r2}
    Orders <- BothOrders
    None = None
PROPERTIES
    ImplementsFlow
CHECK_DEADLOCK FALSE
