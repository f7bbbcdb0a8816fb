----------------------------- MODULE MCStrategies -----------------------------
\* A small instance of one thing that is done with strategies: the lab's backtest
\* (LabSimulation, one strategy of each sizing), the agents' backtest (BacktestBook), the
\* edits and proposals of a lab strategy (LabStrategies) or the rounds that evolve the
\* scanner's configuration (EvolveLoop).
EXTENDS LabSimulation, TLC

CONSTANTS
    Assets, AssetOrder, Days, Closes, MaxQuantity, InitialCash, MarginRequirements,
    r1, r2, r3, Requests, Drafts, FirstDraft, NoValue,
    Metrics, Tolerance, MaxRound, MaxCrashes

VARIABLES
    which,
    money, holdings, gains, day,
    strategy, chat, backtests, requests, edits, overlapped,
    prog, memory, draft, versions, log, tail, crashes

bookVars == <<money, holdings, gains, day>>
chatVars == <<strategy, chat, backtests, requests, edits, overlapped>>
loopVars == <<prog, memory, draft, versions, log, tail, crashes>>

Book == INSTANCE BacktestBook
Lab == INSTANCE LabStrategies WITH Specs <- Drafts, InitialSpec <- FirstDraft, None <- NoValue
Evolve == INSTANCE EvolveLoop WITH None <- NoValue

ASSUME StrategiesAssumption ==
    Book!BacktestAssumption /\ Lab!LabStrategiesAssumption /\ Evolve!EvolveAssumption

AB == <<"A", "B">>
ABPlace == [A |-> 1, B |-> 2]
Strategy(type, amount, capital, max, cost) ==
    [type |-> type, amount |-> amount, capital |-> capital, max_concurrent |-> max, cost_quarters |-> cost]
Strategies == {
    Strategy("fixed_pct", 60, 20, 1, 1),
    Strategy("equal_weight", 0, 26, 2, 1),
    Strategy("vol_targeted", 2, 18, 2, 0)}

\* What backtest() returns when there is nothing to score, and scores that tie, improve, trade more or fall deeper.
Scored(s, t, d) == [sharpe |-> s, turnover |-> t, drawdown |-> d]
FewMetrics ==
    {[sharpe |-> NoValue, turnover |-> 0, drawdown |-> NoValue],
     Scored(1, 2, -1), Scored(2, 3, -5), Scored(3, 2, -9), Scored(3, 4, -5)}

Symmetry == Permutations(Requests)

\* What a behaviour is not about stays without a value.
NoBook == money = NoValue /\ holdings = NoValue /\ gains = NoValue /\ day = NoValue
NoChat ==
    /\ strategy = NoValue /\ chat = NoValue /\ backtests = NoValue
    /\ requests = NoValue /\ edits = NoValue /\ overlapped = NoValue
NoLoop ==
    /\ prog = NoValue /\ memory = NoValue /\ draft = NoValue /\ versions = NoValue
    /\ log = NoValue /\ tail = NoValue /\ crashes = NoValue
AnySpec == spec = CHOOSE s \in Specs : TRUE

StrategyInit ==
    /\ Init
    /\ \/ which = "lab" /\ NoBook /\ NoChat /\ NoLoop
       \/ which = "agents" /\ AnySpec /\ Book!BookInit /\ NoChat /\ NoLoop
       \/ which = "chat" /\ AnySpec /\ NoBook /\ Lab!Init /\ NoLoop
       \/ which = "evolve" /\ AnySpec /\ NoBook /\ NoChat /\ Evolve!Init
StrategyNext ==
    \/ which = "lab" /\ Next /\ UNCHANGED <<which, bookVars, chatVars, loopVars>>
    \/ which = "agents" /\ Book!BookNext /\ UNCHANGED <<which, vars, chatVars, loopVars>>
    \/ which = "chat" /\ Lab!Next /\ UNCHANGED <<which, vars, bookVars, loopVars>>
    \/ which = "evolve" /\ Evolve!Next /\ UNCHANGED <<which, vars, bookVars, chatVars>>
StrategySpec == StrategyInit /\ [][StrategyNext]_<<which, vars, bookVars, chatVars, loopVars>>

\* The records of a backtest are one account: those of the lab's cash and trades, and the four
\* of the agents' portfolio (cash, margin, positions, realized gains), whatever is averaged,
\* closed in parts and opened again.
RecordsAgree ==
    /\ TradesExplainCash
    /\ which = "agents" => Book!GainsExplainCash /\ Book!MarginMatchesShorts

\* Only buying back shorted shares may leave the agents' portfolio with less than no cash.
OnlyCoversOverdraw == [][which = "agents" =>
    (money'.cash < money.cash /\ money'.cash < 0 => \E t \in Assets : holdings'[t].short < holdings[t].short)]_bookVars

\* The chat of a lab strategy tells its changes: an accepted proposal was applied, a change
\* has its message, and a proposal knows every edit told before its question.
ChatTellsChanges == which = "chat" =>
    /\ Lab!TypeOK /\ Lab!AcceptedWasApplied /\ Lab!ChangesAreTold
    /\ Lab!ProposalsKnowEdits /\ Lab!SequentialChangesCount

\* However often the loop dies and starts again, its versions carry what was kept, improve,
\* stay under the ceiling of the first baseline, and its log loses two rounds per death at most.
EvolutionResumes == which = "evolve" =>
    /\ Evolve!TypeOK /\ Evolve!CarriesWhatWasKept /\ Evolve!KeptImproves /\ Evolve!TurnoverIsAnchored
    /\ Evolve!LoggedIsStored /\ Evolve!LossIsBounded /\ Evolve!ReadersAgree
=============================================================================
