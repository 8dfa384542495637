SPECIFICATION Spec
CONSTANTS
    u1 = u1
    o1 = o1
    o2 = o2
    r1 = r1
    c1 = c1
    Users = {u1}
    Orders = {o1, o2}
    Owner <- MCOwner
    Prices = {3}
    Discount = 1
    MaxUses = 1
    MaxUsesPerUser = 1
    CreditUnit = 1
    Cards = {c1}
    MaxExtra = 1
    Reviewers = {r1}
    ProviderUp = {TRUE, FALSE}
    MaxTopUp = 2
    MaxPayments = 3
SYMMETRY Symmetry
CHECK_DEADLOCK FALSE
INVARIANTS CashIsConserved CancelledHoldsNothing ReceiptSettles PaidIsCovered
PROPERTY SettledStaysSettled
