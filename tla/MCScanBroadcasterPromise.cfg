SPECIFICATION FairSpec
CONSTANTS
r1 = r1
r2 = r2
s1 = s1
s2 = s2
Runs <- TwoRuns
Subscribers <- TwoRequests
MaxEvents = 2
LoopMayClose = TRUE
CHECK_DEADLOCK FALSE
INVARIANTS
NothingMissedOrRepeated
ListedWhileAlive
PROPERTIES
KeepsPromise
