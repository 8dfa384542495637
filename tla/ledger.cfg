SPECIFICATION Spec
CONSTANTS
    w1 = w1
    p1 = p1
    p2 = p2
    k1 = k1
    k2 = k2
    k3 = k3
    Wallets = {w1}
    Workers = {p1, p2}
    Keys = {k1, k2, k3}
    Amounts <- MCAmounts
    NoLimit = NoLimit
    DailyLimit = 1
    MonthlyLimit = 1
    DaysPerMonth = 2
    MaxDay = 2
    NoWorker = NoWorker
SYMMETRY Symmetry
VIEW WithoutAcked
INVARIANTS LedgerExplainsBalance DebitsCovered LimitsHold
PROPERTIES AckedIsBooked ImplementsIdeal
