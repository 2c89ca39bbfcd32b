CONSTANTS
    a1 = a1
    a2 = a2
    App = {a1, a2}
    Port = {1}
    Requests <- WithNeighbour
    MaxVersion = 1
    MaxCrashes = 1
    Faulty = {"docker", "database", "files", "restore"}
SPECIFICATION FairSpec
PROPERTIES
    OperationsEnd
    FailedUpdateRestores
    SuccessDeploys
    CleanUninstall
CHECK_DEADLOCK FALSE
