SPECIFICATION FairSpec
CONSTANTS
    s1 = s1
    life = life
    term = term
    h1 = h1
    h2 = h2
    Subs <- OneSub
    Courses = {}
    PlanOf <- MCPlanOf
    Term <- MCTerm
    Handlers <- OneHandler
    MaxBusy = 2
    LookBack = 1
    Jobs = {"sweep", "hourly", "daily"}
    MaxDeclines = 0
    MaxRequests = 1
    MaxClock = 1
    MaxFaults = 1
INVARIANT
    EndsWereIssued
PROPERTIES
    LapsedIsRemoved
CHECK_DEADLOCK FALSE
