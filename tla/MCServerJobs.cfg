SPECIFICATION JobSpec
CONSTANTS
Markets <- TwoMarkets
MaxClicks = 3
MaxNights = 1
MaxFaults = 1
TopN = 3
Workers = 2
MaxSqlFaults = 2
MaxDeletes = 1
A = A
B = B
C = C
Universe <- ThreeTickers
Findings <- MixedFindings
MaxWorkers = 2
Detectors = 2
Scores = {1, 2}
BestN = 2
ProgressEvery = 2
MaxFailures = 2
Downloads = {d1, d2, d3}
Models = {m1}
Layers = 2
MaxCancels = 1
None = None
CHECK_DEADLOCK FALSE
INVARIANTS
RunningIsTrue
OutcomeIsOwn
FollowUpIsSound
ScanIsWhole

PROPERTIES
LaterRefreshWins
JobsEnd
