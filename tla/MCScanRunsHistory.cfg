CONSTANTS
    c1 = c1
    m1 = m1
    Configs <- OneConfig
    Requests <- NoRequest
    MailPlans <- NoMail
    ScanOutcomes <- AllOrNothing
    MaxRuns = 2
    MaxSlot = 2
    MaxStops = 1
    MaxDrains = 1
    MaxSqlFaults = 0
    MaxMongoFaults = 1

SPECIFICATION FairSpec

INVARIANTS
    SlotScansOnce

PROPERTIES
    RunsSettle

CHECK_DEADLOCK FALSE
