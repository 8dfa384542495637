SPECIFICATION SteadySpec
CONSTANTS
    u1 = u1
    o1 = o1
    r1 = r1
    c1 = c1
    Users = {u1}
    Orders = {o1}
    Owner <- MCOwner
    Prices = {3}
    Discount = 1
    MaxUses = 1
    MaxUsesPerUser = 1
    CreditUnit = 2
    Cards = {c1}
    MaxExtra = 1
    Reviewers = {r1}
    ProviderUp = {TRUE}
    MaxTopUp = 4
    MaxPayments = 3
CHECK_DEADLOCK FALSE
PROPERTY ReceiptIsServed
