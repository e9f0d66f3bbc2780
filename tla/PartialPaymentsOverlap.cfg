SPECIFICATION Spec
CONSTANTS
    r1 = r1
    r2 = r2
    i1 = i1
    customer = customer
    schedule = schedule
    http = http
    NoRegistration = NoRegistration
    Registrations <- OneRegistration
    Installments <- OneInstallment
    Customers <- MCCustomers
    CustomerOf <- MCCustomerOf
    Sources <- TwoCallers
    Cleaners <- TwoCleaners
    Amounts = {1, 2}
    Price = 3
    DiscountedPrice = 2
    MinDeposit = 1
    MinInstallment = 2
    MaxFaults = 1
INVARIANTS
    TypeOK
    TotalsNeverOverstate
    PaidInFullMeansPaid
    CommissionNeedsFullPayment
    UnpaidCanBePaid
    LossIsDeletion
    
PROPERTIES
    FullyPaidIsFinal
CHECK_DEADLOCK FALSE
SYMMETRY CleanersAlike
