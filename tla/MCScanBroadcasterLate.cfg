SPECIFICATION FairSpec
CONSTANTS
r1 = r1
r2 = r2
s1 = s1
s2 = s2
Runs <- OneRun
Subscribers <- TwoRequests
MaxEvents = 1
LoopMayClose = FALSE
CHECK_DEADLOCK FALSE
PROPERTIES
FinishedRunEndsStream
