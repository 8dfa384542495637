SPECIFICATION Spec
CONSTANTS
    o1 = o1
    o2 = o2
    o3 = o3
    r1 = r1
    r2 = r2
    Workers = {w1, w2}
    Nobody = Nobody
    Orders = {o1, o2, o3}
    Referee <- MCReferee
    Worth <- MCWorth
    Cheap = {}
    ProfileWorth = 8
    PointsPerPill = 2
    Tiers <- MCOneTier
    NeedsJoin = FALSE
    LevelPoints = 3
    LevelBonus = 16
    Money = 1
    Unverified = {}
    Latecomers = {}
    Rank <- MCRank
    Batch = 3
SYMMETRY WorkerSymmetry
CHECK_DEADLOCK FALSE
INVARIANTS MoneyExplained LiquidIsOpenPill ChallengeCountsPeople
PROPERTY FinalStaysFinal
