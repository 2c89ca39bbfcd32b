CONSTANTS
    Unseen = Unseen
    MaxOutages = 1
    MaxActions = 1
    MaxStrays = 0
SPECIFICATION FairRecoverySpec
PROPERTIES
    UpdateReloads
CHECK_DEADLOCK FALSE
