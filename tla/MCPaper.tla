------------------------------- MODULE MCPaper -------------------------------
\* A small instance of paper trading: either the accounts of the users (UserPaper) or the
\* sleeves of the weekly forward test (PaperSleeves).
EXTENDS UserPaper, TLC

CONSTANTS
    u1, p1, p2, t1, t2, scanner, spy,
    Sleeves, BuyAndHold, SleevePrices, StartingCash, HoldDays, WeekLength, MaxDay,
    MaxMarkings, MaxFaults, MaxCrashes

VARIABLES which, orders, lots, marks, weekly, daily, env

sleeveVars == <<orders, lots, marks, weekly, daily, env>>

Forward == INSTANCE PaperSleeves WITH Prices <- SleevePrices

ASSUME SleevesAssumption == Forward!PaperSleevesAssumption

OneUser == {u1}
TwoTickers == {t1, t2}
TwoRequests == {p1, p2}
ScannerAndBenchmark == <<scanner, spy>>
Benchmark == {spy}
Symmetry == Permutations(Requests) \cup Permutations(Tickers)

\* The sleeves have two stories: all days with failures and kills, and the last day with the
\* daily job too.  What a story does not have counts as used up.
Stories ==
    {[day |-> 1, markings |-> MaxMarkings, faults |-> 0, crashes |-> 0],
     [day |-> MaxDay, markings |-> 0, faults |-> 0, crashes |-> 0]}

PaperInit ==
    /\ Init
    /\ orders = [s \in Forward!Names |-> Forward!NoOrders]
    /\ lots = [s \in Forward!Names |-> {}]
    /\ marks = [s \in Forward!Names |-> Forward!Unmarked]
    /\ weekly = Forward!NoRun
    /\ daily = Forward!NoMarking
    /\ env \in Stories
    /\ \/ which = "sleeves"
       \/ which = "accounts" /\ env.day = 1

PaperNext ==
    \/ Next /\ which = "accounts" /\ UNCHANGED <<which, sleeveVars>>
    \/ Forward!Next /\ which = "sleeves" /\ UNCHANGED <<which, vars>>
    \* The forward test has its last day; a user's requests always can go on.
    \/ which = "sleeves" /\ UNCHANGED <<which, vars, sleeveVars>>

PaperSpec == PaperInit /\ [][PaperNext]_<<which, vars, sleeveVars>>

\* The open positions and the order log of a sleeve are one book, with one position per
\* ticker and no debt.
BookMatchesOrders == Forward!TypeOK /\ Forward!BookMatchesOrders /\ Forward!Solvent

\* One run at most trades in a week.
WeekTradesOnce == Forward!WeekTradesOnce

\* Positions leave a book only when they have aged, and never a buy-and-hold book.
SoldOnlyWhenAged == Forward!SoldOnlyWhenAged
=============================================================================
