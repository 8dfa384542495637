SPECIFICATION FairSpec
CONSTANTS
    a = a
    b = b
    n1 = n1
    n2 = n2
    Users = {a, b}
    Founders = {a}
    Visits = {v1, v2}
    Nobody = Nobody
    Workers = {p1, p2}
    Levels = {"plenty", "days", "expired"}
    MaxTerm = 2
    Notices = {n1, n2}
    Scenes <- MCScenes
    Limit = 1
    MaxTroubles = 1
CHECK_DEADLOCK FALSE
INVARIANTS SentOnce
PROPERTIES  JoinNoticeVanishes CopyCatchesUp
