SPECIFICATION FairSpec
CONSTANTS
    r1 = r1
    r2 = r2
    i1 = i1
    customer = customer
    schedule = schedule
    http = http
    NoRegistration = NoRegistration
    Registrations <- TwoRegistrations
    Installments = {}
    Customers <- MCCustomers
    CustomerOf <- MCCustomerOf
    Sources <- OneCaller
    Cleaners <- OneCleaner
    Amounts = {1}
    Price = 2
    DiscountedPrice = 1
    MinDeposit = 1
    MinInstallment = 1
    MaxFaults = 1
INVARIANT
    LossIsDeletion
PROPERTIES
    PaidIsRecorded
    AbandonedIsCleaned
CHECK_DEADLOCK FALSE
