SPECIFICATION Spec
CONSTANTS
    g1 = g1
    g2 = g2
    u1 = u1
    u2 = u2
    b1 = b1
    b2 = b2
    Gifts = {g1, g2}
    People = {u1, u2}
    Strangers = {u1}
    Buyer <- MCBuyer
    Workers = {w1, w2}
    Nobody = Nobody
    Scenarios <- MCScenarios
    MaxTroubles = 1
SYMMETRY WorkerSymmetry
CHECK_DEADLOCK FALSE
INVARIANTS HandedOver 
PROPERTY NeverReassigned
