SPECIFICATION StrategySpec
CONSTANTS
Tickers = {"A", "B"}
Place <- ABPlace
Dates = 4
Prices = {4, 8}
Specs <- Strategies
Assets = {"A", "B"}
AssetOrder <- AB
Days = 3
Closes = {3600, 7200}
MaxQuantity = 2
InitialCash = 10800
MarginRequirements = {0, 50}
r1 = r1
r2 = r2
r3 = r3
Requests = {r1, r2, r3}
Drafts = {s1, s2}
FirstDraft = s1
NoValue = NoValue
Metrics <- FewMetrics
Tolerance = 5
MaxRound = 3
MaxCrashes = 2
SYMMETRY Symmetry
CHECK_DEADLOCK FALSE
INVARIANTS
LimitsHold
PendingIsSound
RecordsAgree
ChatTellsChanges
EvolutionResumes
PROPERTIES
OnlyCoversOverdraw
