SPECIFICATION LoansSpec
CONSTANTS
    None = None
    Employee = {e1}
    Workplace = {w1, w2}
    Session = {s1, s2}
    Year = {1, 2}
    Wish <- SmallWishes
    Terms <- SmallTerms
    MaxPolicies = 2
    MaxLoans = 2
    MaxVersion = 2
    Years <- ClockYears
    Times = {40, 41}
INVARIANTS
    LoanTypeOK
    OnePolicyInForce
    VersionTellsLoanStatus
    SettlementIsRemembered
    ExposureBounded
PROPERTIES
    SubmissionWithinLimits
    EverySubmissionEnds
    JalaliFollowsClock
CHECK_DEADLOCK FALSE
