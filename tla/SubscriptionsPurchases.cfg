SPECIFICATION Spec
CONSTANTS
    s1 = s1
    life = life
    term = term
    h1 = h1
    h2 = h2
    Subs <- OneSub
    Courses <- TwoCourses
    PlanOf <- MCPlanOf
    Term <- MCTerm
    Handlers <- TwoHandlers
    MaxBusy = 2
    LookBack = 1
    Jobs = {"sweep"}
    MaxDeclines = 1
    MaxRequests = 2
    MaxClock = 1
    MaxFaults = 0
INVARIANTS
    TypeOK
    PurchaseKept
    EndsWereIssued
    ActiveIsHeld
    PaymentLeavesTrace
    PaidIsHeld
PROPERTIES
    DropsOnlyLapsed
SYMMETRY HandlersAlike
CHECK_DEADLOCK FALSE
