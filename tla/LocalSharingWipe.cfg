CONSTANTS
    t1 = t1
    t2 = t2
    t3 = t3
    s1 = s1
    s2 = s2
    s3 = s3
    None = None
    Task = {t1, t2, t3}
    Source = {s1, s2, s3}
    Wish <- UpToRenaming
    MaxName = 2
    Faulty = {}
    MaxFaults = 0
SPECIFICATION Spec
INVARIANT NeverWipesMounted
CHECK_DEADLOCK FALSE
