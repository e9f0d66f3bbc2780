SPECIFICATION Spec
CONSTANTS
    c1 = c1
    c2 = c2
    v1 = v1
    f1 = f1
    d1 = d1
    g1 = g1
    g2 = g2
    ann = ann
    bob = bob
    Checkouts <- TwoCheckouts
    Vips <- OneVip
    Frees <- OneFree
    Deposits <- OneDeposit
    Guests <- TwoGuests
    Hosts <- OneDeposit
    Emails <- TwoEmails
    EmailOf <- MCEmailOf
    Capacity = 1
    MaxBusy = 2
    MaxFaults = 1
INVARIANTS
    TypeOK
    RefusedOnlyWhenFull
    NoDuplicateUnlessRaced
    PaidIsSeated
    LedgersAgree
CHECK_DEADLOCK FALSE
SYMMETRY GuestsAlike
