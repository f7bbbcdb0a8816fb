SPECIFICATION PaperSpec
CONSTANTS
u1 = u1
p1 = p1
p2 = p2
t1 = t1
t2 = t2
scanner = scanner
spy = spy
Users <- OneUser
Requests <- TwoRequests
Tickers <- TwoTickers
Quantities = {1, 2}
Prices = {1, 3}
Deposits = {2, 4}
Scale = 2
MaxAmount = 5
MaxTrades = 3
Sleeves <- ScannerAndBenchmark
BuyAndHold <- Benchmark
SleevePrices = {1, 2}
StartingCash = 5
HoldDays = 1
WeekLength = 2
MaxDay = 3
MaxMarkings = 1
MaxFaults = 1
MaxCrashes = 1
SYMMETRY Symmetry
INVARIANTS
TypeOK
BooksBalance
TradesExplainAccount
AnswersAreCoherent
WeekTradesOnce
BookMatchesOrders
PROPERTIES
SoldOnlyWhenAged
