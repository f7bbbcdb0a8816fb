CONSTANTS
    c1 = c1
    m1 = m1
    Configs <- OneConfig
    Requests <- OneRequest
    MailPlans <- AllMail
    ScanOutcomes <- OneOfEach
    MaxRuns = 1
    MaxSlot = 1
    MaxStops = 2
    MaxDrains = 1
    MaxSqlFaults = 2
    MaxMongoFaults = 1

SPECIFICATION Spec

INVARIANTS
    TypeOK
    RunningHasThread
    CompleteHasResults
    AnnouncementsAreTrue
    GapsAreReported

PROPERTIES
    CompletionIsFinal

CHECK_DEADLOCK FALSE
