SPECIFICATION PeopleSpec
CONSTANTS
    None = None
    E1 = e1
    W1 = w1
    Employee = {e1}
    Workplace = {w1}
    Session = {s1}
    NationalId <- Ids
    MaxFamilies = 1
    MaxTokens = 1
    Asset = {}
    Serial = {}
    Location = {}
    MaxTimeline = 0
    Complex = {1, 2}
    ComplexOf <- OwnComplex
    Operation = {}
    Role = {}
    Permits <- RolePermits
    Clerk = {s1}
    Nothing = None
    Row <- Rows
    Says <- Text
    SeedOrder <- Order
    Release <- Releases
    Unit = {"unit"}
    RoleName = {"other role"}
    RoleGrant = {"has base role"}
    ScopeGrant = {"scope"}
    Needs <- Wants
    MaxWrites = 0
    MaxLost = 0
    MaxScopes = 0
INVARIANTS
    EverySignInAudited
CHECK_DEADLOCK FALSE
