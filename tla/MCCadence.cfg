SPECIFICATION FairCadence
CONSTANTS
    ScanInterval = 60
    MonitorInterval = 6
    Limits <- Workloads
    PersistTimeout = 1
    MaxWait = 53
INVARIANTS
    CadenceTypeOK
    MonitorIsPrompt
    StopsPromptly
PROPERTIES
    MonitorBetweenScans
    MonitorKeepsRunning
    CancelledStops
