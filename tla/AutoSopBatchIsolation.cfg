SPECIFICATION Spec
CONSTANTS
TopN = 2
Workers = 2
MaxSqlFaults = 1
MaxDeletes = 0
CHECK_DEADLOCK FALSE
INVARIANT
FailuresAreIsolated
