CONSTANTS
    s1 = s1
    s2 = s2
    s3 = s3
    u1 = u1
    u2 = u2
    t1 = t1
    t2 = t2
    Absent = Absent
    None = None
    Source = {s1, s2, s3}
    Url = {u1, u2}
    Task = {t1, t2}
    Existing <- OneSource
    MaxFaults = 2
SPECIFICATION FairSpec
INVARIANTS
    AsAsked
    SyncHasLastWord
PROPERTIES
    RegistrySpec
    JobsAnswered
CHECK_DEADLOCK FALSE
