SPECIFICATION FairSpec
CONSTANTS
    k1 = k1
    m1 = m1
    q1 = q1
    ann = ann
    one = one
    two = two
    Crons <- OneCron
    Manuals <- OneManual
    Requests <- OneRequest
    Recipients <- TwoEntries
    Emails <- OneEmail
    EmailOf <- Twice
    BatchSize = 1
    MaxFaults = 1
INVARIANTS
    TypeOK
    SecondMailHasACause
    SentIsComplete
    SentCountIsExact
PROPERTY
    ScheduledIsSettled
CHECK_DEADLOCK FALSE
