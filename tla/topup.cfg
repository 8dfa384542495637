SPECIFICATION Spec
CONSTANTS
    t1 = t1
    t2 = t2
    t3 = t3
    Payments = {t1, t2, t3}
    Method <- MCMethod
    Amount <- MCAmount
    Handlers = {h1, h2}
    Gift = 8
    MaxUses = 2
    MaxPerUser = 1
    MaxElsewhere = 1
    Asked <- MCAsked
    Nobody = Nobody
CHECK_DEADLOCK FALSE
INVARIANTS CreditsExplained
PROPERTY PaidIsCredited
