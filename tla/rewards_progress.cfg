SPECIFICATION SteadySpec
CONSTANTS
    o1 = o1
    o2 = o2
    o3 = o3
    r1 = r1
    r2 = r2
    Workers = {w1, w2}
    Nobody = Nobody
    Orders = {o1, o3}
    Referee <- MCTwoReferees
    Worth <- MCTwoWorths
    Cheap = {o3}
    ProfileWorth = 8
    PointsPerPill = 2
    Tiers <- MCOnePurchase
    NeedsJoin = TRUE
    LevelPoints = 3
    LevelBonus = 16
    Money = 1
    Unverified = {r1}
    Latecomers = {r1}
    Rank <- MCTwoRanks
    Batch = 3
CHECK_DEADLOCK FALSE
PROPERTIES PurchaseIsRewarded ChallengeIsSettled
