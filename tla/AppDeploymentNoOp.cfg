CONSTANTS
    a1 = a1
    a2 = a2
    App = {a1}
    Port = {1}
    Requests <- Alone
    MaxVersion = 1
    MaxCrashes = 0
    Faulty = {"docker"}
SPECIFICATION Spec
PROPERTIES
    UpdateDelivers
CHECK_DEADLOCK FALSE
