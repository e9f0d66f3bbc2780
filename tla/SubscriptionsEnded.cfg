SPECIFICATION Spec
CONSTANTS
    s1 = s1
    life = life
    term = term
    h1 = h1
    h2 = h2
    Subs <- OneSub
    Courses <- OneCourse
    PlanOf <- MCPlanOf
    Term <- MCTerm
    Handlers <- OneHandler
    MaxBusy = 2
    LookBack = 1
    Jobs = {"sweep"}
    MaxDeclines = 0
    MaxRequests = 3
    MaxClock = 1
    MaxFaults = 0
INVARIANTS
    DeletionEndsItsOwn
CHECK_DEADLOCK FALSE
