--------------------------- MODULE MCScanBroadcaster ---------------------------
\* Small instances of ScanBroadcaster: runs and requests are model values.
EXTENDS ScanBroadcaster

CONSTANTS r1, r2, s1, s2

OneRun == {r1}
TwoRuns == {r1, r2}
TwoRequests == {s1, s2}
=============================================================================
