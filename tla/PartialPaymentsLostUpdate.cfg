SPECIFICATION Spec
CONSTANTS
    r1 = r1
    r2 = r2
    i1 = i1
    customer = customer
    schedule = schedule
    http = http
    NoRegistration = NoRegistration
    Registrations <- OneRegistration
    Installments <- OneInstallment
    Customers <- MCCustomers
    CustomerOf <- MCCustomerOf
    Sources <- OneCaller
    Cleaners <- OneCleaner
    Amounts = {1, 2}
    Price = 2
    DiscountedPrice = 1
    MinDeposit = 1
    MinInstallment = 1
    MaxFaults = 0
INVARIANTS
    TotalPaidIsTotal
CHECK_DEADLOCK FALSE
