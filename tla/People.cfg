SPECIFICATION PeopleSpec
CONSTANTS
    None = None
    E1 = e1
    W1 = w1
    Employee = {e1, e2}
    Workplace = {w1, w2}
    Session = {s1, s2}
    NationalId <- Ids
    MaxFamilies = 2
    MaxTokens = 3
    Asset = {a1, a2}
    Serial = {n1, n2}
    Location = {l1}
    MaxTimeline = 4
    Complex = {1, 2}
    ComplexOf <- OwnComplex
    Operation = {"read", "write"}
    Role = {1, 2}
    Permits <- RolePermits
    Clerk = {s1, s2}
    Nothing = None
    Row <- Rows
    Says <- Text
    SeedOrder <- Order
    Release <- Releases
    Unit = {"unit"}
    RoleName = {"other role"}
    RoleGrant = {"has base role"}
    ScopeGrant = {"scope"}
    Needs <- Wants
    MaxWrites = 2
    MaxLost = 1
    MaxScopes = 2
INVARIANTS
    PeopleTypeOK
    AccountFollowsEmployee
    RevocationsAndRenewalsAudited
    TimelineTellsAsset
    CustodyAlternates
    
PROPERTIES
    ChangesAreOnRecord
    
    RevocationReachesWhatItFound
    ImplementsFamilyLife
    ImplementsStaff
SYMMETRY Alike
CHECK_DEADLOCK FALSE
