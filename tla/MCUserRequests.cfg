SPECIFICATION RequestSpec
CONSTANTS
Scanners = {"config"}
Schedules = {"schedule"}
Presets = {"preset"}
Recipients = {"ann", "bob"}
Accounts <- Users
Cap = 1
Crons = {morning, evening}
Zones = {"NewYork", "Shanghai"}
MaxRequests = 3
MaxTrouble = 1
c1 = c1
c2 = c2
Selections = {c1, c2}
NoConfig = NoConfig
MaxScans = 2
MaxMounts = 2
MaxMoves = 2
SYMMETRY Symmetry
CHECK_DEADLOCK FALSE
INVARIANTS
RegistryIsTrue
PanelIsCoherent
