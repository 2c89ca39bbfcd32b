SPECIFICATION ServicesSpec
CONSTANTS
    t1 = t1
    t2 = t2
    c1 = c1
    c2 = c2
    c3 = c3
    Task = {t1, t2}
    Cron = {c1, c2, c3}
    Barren = {c3}
    Tick = {k1, k2}
    ByHand = hand
    Null = Null
    Wish <- WishedFor
    Limit = 1
    MaxAsked = 2
    MaxFaults = 1
    Share = {share1, share2}
    ShareRequest = {r1, r2}
    Watcher = watcher
    NoShare = NoShare
    MaxFailures = 1
    b1 = b1
    b2 = b2
    q1 = q1
    q2 = q2
    Backups = {b1, b2}
    Timed = {b2}
    Restores = {q1, q2}
    Seconds = 2
    Retention = 1
    MaxChanges = 1
    MaxOutages = 1
    Layouts <- AnyLayout
    Absent = Absent
    Broken = Broken
    Lost = Lost
    na = na
    nb = nb
    fa = fa
    fb = fb
    home = home
    n1 = n1
    n2 = n2
    m1 = m1
    Item = {fa, fb, home, n1, n2, m1}
    Folder = {home, m1}
    Name = {na, nb}
    MaxSuffix = 2
    FileRequest = {r1, r2}
    Asks <- Wanted
    Place0 <- AnyPlace
    Root = Root
    Bin = Bin
    Unborn = Unborn
    Nothing = Nothing
    MaxTroubles = 1
    s1 = s1
    v1 = v1
    None = None
    Setups = {s1, s2}
    Verifies = {v1, v2}
    Disables = {d1}
    Logins = {l1, l2}
    Slot = {1, 2}
    Retries = 2
    MaxMishaps = 1
INVARIANTS
    TypesOK
    ScheduleFollowsEdit
    SharesKeepTheirFiles
    RestoreIsWhole
    NewestCanBeRestored
    FilesAreKept
    TrashHasRows
    BackupCodeOnce
    ShownCodesWork
    SecretWasProven
PROPERTIES
    DueTaskStarts
    RowIsMounted
    ServiceComesBack
CHECK_DEADLOCK FALSE
