SPECIFICATION Spec
CONSTANTS
macro = macro
sector = sector
debate = debate
Waves <- TwoWaves
MaxRequests = 3
Budgets <- SomeTrouble
SYMMETRY SameWave
CHECK_DEADLOCK FALSE
INVARIANTS
SettledRunsHaveReports
ReportIsCoherent
AnswerIsStored
PaidOnce
