SPECIFICATION Spec
CONSTANTS
    s1 = s1
    s2 = s2
    h1 = h1
    h2 = h2
    i1 = i1
    i2 = i2
    w1 = w1
    Session = {s1, s2}
    Shelf = {h1}
    Item = {i1}
    Warehouse = {w1}
    WarehouseOf <- OneWarehouse
    FirstShelves = {h1}
    MaxQuantity = 1
    Threshold = {0, 1}
    MaxMoves = 3
    MaxLines = 2
    None = None
INVARIANTS
    RetiredPlaceIsEmpty
CHECK_DEADLOCK FALSE
