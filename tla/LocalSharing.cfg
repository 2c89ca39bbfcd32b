CONSTANTS
    t1 = t1
    t2 = t2
    t3 = t3
    s1 = s1
    s2 = s2
    s3 = s3
    None = None
    Task = {t1, t2, t3}
    Source = {s1, s2, s3}
    Wish <- UpToRenaming
    MaxName = 2
    Faulty = {"command", "probe", "database", "outside", "restart"}
    MaxFaults = 1
SPECIFICATION FairSpec
INVARIANTS
    MountsHaveRows
    WipedOnlyWhenTainted
PROPERTIES
    SharedAsAsked
    EveryRequestEnds
CHECK_DEADLOCK FALSE
