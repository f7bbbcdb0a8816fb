---------------------------- MODULE MCUserRequests ----------------------------
\* A small instance of what a user's requests leave behind: either scheduled jobs
\* (JobRegistry) or what the scanner's panel shows (ScannerPanel).
EXTENDS Naturals, FiniteSets, TLC

CONSTANTS
    Scanners, Schedules, Presets, Recipients, Accounts, Cap, Crons, Zones, MaxRequests, MaxTrouble,
    c1, c2, Selections, NoConfig, MaxScans, MaxMounts, MaxMoves

VARIABLES
    story,
    table, zone, jobs, reqs, user, past,
    runs, alive, panel, attach, streams, fetches, clicks, left

registryVars == <<table, zone, jobs, reqs, user, past>>
panelVars == <<runs, alive, panel, attach, streams, fetches, clicks, left>>

Registry == INSTANCE JobRegistry WITH Configs <- Scanners, env <- user
Panel == INSTANCE ScannerPanel WITH Configs <- Selections, None <- NoConfig, MaxRuns <- MaxScans

ASSUME UserRequestsAssumption == Registry!JobRegistryAssumption /\ Panel!PanelAssumption

\* Users with rows of two kinds, of one, and with two recipients.
Users == {{"config", "schedule"}, {"preset"}, {"ann", "bob"}}

\* Nothing tells configurations, or cron expressions, from one another.
Symmetry == Permutations(Selections) \cup Permutations(Crons)

\* A panel that is left and opened again, or one of two moves.
PanelStories ==
    {[Panel!FirstOf(c) EXCEPT !.moves = MaxMoves - 1] : c \in Selections}
        \cup {[Panel!FirstOf(c) EXCEPT !.mount = MaxMounts] : c \in Selections}

\* What a behaviour is not about stays without a value.
NoPanel ==
    /\ runs = NoConfig /\ alive = NoConfig /\ panel = NoConfig /\ attach = NoConfig
    /\ streams = NoConfig /\ fetches = NoConfig /\ clicks = NoConfig /\ left = NoConfig

RequestInit ==
    \/ story = "jobs" /\ Registry!Init /\ NoPanel
    \/ story = "panel" /\ Registry!Init /\ zone = "NewYork" /\ user.account = {"preset"}
        /\ Panel!NothingYet /\ panel \in PanelStories
RequestNext ==
    \/ story = "jobs" /\ Registry!Next /\ UNCHANGED <<story, panelVars>>
    \/ story = "panel" /\ Panel!Next /\ UNCHANGED <<story, registryVars>>
RequestSpec == RequestInit /\ [][RequestNext]_<<story, registryVars, panelVars>>

\* Jobs follow their rows and the limits of rows hold, but for operations that overlapped.
RegistryIsTrue == Registry!TypeOK /\ Registry!JobsFollowRows /\ Registry!CapHolds

\* What the panel shows is of one run and of the selection, and an instance that says it is running will
\* hear of it, through one stream, unless it asked when the run was over (RunningIsFollowed).
PanelIsCoherent == story = "panel" =>
    Panel!TypeOK /\ Panel!OneStream /\ Panel!EntriesAreOfRun /\ Panel!RunningIsFollowed /\ Panel!ShownUnlessLeft
=============================================================================
