SPECIFICATION WarehouseSpec
CONSTANTS
    s1 = s1
    s2 = s2
    h1 = h1
    h2 = h2
    i1 = i1
    i2 = i2
    w1 = w1
    r1 = r1
    r2 = r2
    Session = {s1, s2}
    Shelf = {h1}
    Item = {i1}
    Warehouse = {w1}
    WarehouseOf <- OneWarehouse
    FirstShelves = {}
    MaxQuantity = 1
    Threshold = {0, 1}
    MaxMoves = 3
    MaxLines = 2
    None = None
    Blank = None
    Editor = {s1, s2}
    Record = {r1, r2, "setting"}
    SortOf <- Sorts
    Apart <- Neighbours
    Name = {"bolt", "BOLT", "nut"}
    Lower <- LowerCase
    Data <- Columns
    MaxEntries = 4
INVARIANTS
    TypeOK
    LedgerBalanced
    LockedDrafts
    OneActiveAlert
    AuditTellsRow
PROPERTIES
    AlertFollowsMovement
    RetiredStaysRetired
SYMMETRY Sessions
CHECK_DEADLOCK FALSE
