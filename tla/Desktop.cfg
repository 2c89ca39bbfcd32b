SPECIFICATION DesktopSpec
CONSTANTS
    r1 = r1
    r2 = r2
    p1 = p1
    p2 = p2
    p3 = p3
    Load = {p1, p2}
    Check = {k1}
    Unknown = Unknown
    Pending = Pending
    Failed = Failed
    Releases = 2
    MaxFailures = 2
    MaxRestarts = 1
    Visitor = {p1, p2}
    Nobody = Nobody
    MaxLapses = 1
    MaxHiccups = 1
    List = {list1}
    Compose = {app1}
    Missing = Missing
    Nothing = Nothing
    Versions = 2
    MaxSyncs <- SyncedAt
    Connection = {r1, r2}
    Processes = 4
    OwnerOf <- OneUser
    Container = {box1, box2}
    Host = Host
    NoContainer = NoContainer
    MaxSessions = 1
    None = None
    Request = {r1, r2}
    Call = {c1, c2, c3}
    MaxExpiries = 1
    Operations = 2
    Slots = 2
    MissingLimit = 3
    MaxLosses = 1
    Client = {p1, p2}
    Sockets = 4
    MaxLeaves = 2
    MaxHelperOutages = 1
    Unseen = Unseen
    MaxOutages = 2
    MaxActions = 1
    MaxStrays = 1
    Windows = {p1, p2, p3}
    NoWindow = NoWindow
    MaxGestures = 5
    Wallpapers = {p1, p2, p3}
    NoWallpaper = NoWallpaper
    MaxChoices = 3
    MaxTransitions = 11
INVARIANTS
    TypesOK
    FreshAnswers
    ShellsHaveOwners
    SnapshotsFollowFiles
    KnownIsServed
PROPERTIES
    TrackingEnds
    EventsComeBack
    AccountStaysSeen
    DesktopComesBack
    DesktopAsAsked
CHECK_DEADLOCK FALSE
