CONSTANTS
    c1 = c1
    m1 = m1
    Configs <- OneConfig
    Requests <- OneRequest
    MailPlans <- NoMail
    ScanOutcomes <- AllOutcomes
    MaxRuns = 2
    MaxSlot = 1
    MaxStops = 0
    MaxDrains = 0
    MaxSqlFaults = 0
    MaxMongoFaults = 0

SPECIFICATION Spec

INVARIANT OneScanInFlight

CHECK_DEADLOCK FALSE
