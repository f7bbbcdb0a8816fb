SPECIFICATION DataSpec
CONSTANTS
Threads = {"t1", "t2"}
Capacity = 3
Rate = 2
Cost = 3
MinInterval = 1
RetryDelays <- OneRetry
MaxTime = 6
A = A
B = B
c1 = c1
c2 = c2
c3 = c3
u1 = u1
u2 = u2
Requests = {c1, c2, c3}
Users = {u1, u2}
Tickers = {A, B}
QuoteTtl = 1
Entries = 2
PoolSize = 1
QuoteTime = 2
Lists <- TwoLists
Days = {1, 2}
Ranges <- OneOrBoth
Contents = {"old", "new"}
BarTtl = 1
MarketTime = 3
MaxRefusals = 1
MaxRevisions = 1
NoValue = NoValue
SYMMETRY Same
CHECK_DEADLOCK FALSE
INVARIANTS
CeilingHolds
QuotesAreOwn
BarsAreStored
