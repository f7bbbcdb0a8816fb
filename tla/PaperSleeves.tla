------------------------------ MODULE PaperSleeves ------------------------------
(***************************************************************************)
(* The paper-trading forward test (src/paper_trading): the weekly job that *)
(* rebalances every sleeve through a broker rebuilt from the database, the *)
(* daily job that marks the sleeves to market meanwhile, and what failed   *)
(* statements, kills and retries leave in the tables.                      *)
(*                                                                         *)
(* Each job has one database session for all sleeves.  Amounts are whole   *)
(* numbers; one weekly process runs at a time (max_instances=1).           *)
(***************************************************************************)
EXTENDS Integers, Sequences, FiniteSetsExt

CONSTANTS
    Sleeves,       \* the active sleeves, in the order they are run
    BuyAndHold,    \* those never aged out (spy_benchmark)
    Tickers,
    Prices,        \* marks a ticker may have
    StartingCash,
    HoldDays,      \* days after which a position is sold
    WeekLength,    \* days that share a week key
    MaxDay,        \* days of the model
    MaxMarkings,   \* daily jobs
    MaxFaults,     \* database statements or commits that fail
    MaxCrashes     \* kills of the weekly process

Names == {Sleeves[i] : i \in DOMAIN Sleeves}

\* With no active sleeve a run does nothing.
PaperSleevesAssumption ==
    /\ Sleeves \in Seq(Names) /\ Sleeves # <<>>
    /\ \A i, j \in DOMAIN Sleeves : Sleeves[i] = Sleeves[j] => i = j
    /\ BuyAndHold \subseteq Names
    /\ IsFiniteSet(Tickers)
    /\ Prices \subseteq Nat \ {0}
    /\ {StartingCash, HoldDays} \subseteq Nat
    /\ {WeekLength, MaxDay} \subseteq Nat \ {0}
    /\ {MaxMarkings, MaxFaults, MaxCrashes} \subseteq Nat

VARIABLES
    orders,   \* paper_orders of each sleeve: what was spent, earned and filled, and when
    lots,     \* paper_positions with status open, of each sleeve
    marks,    \* the latest paper_equity_marks row of each sleeve
    weekly,   \* run_once at work
    daily,    \* mark_all at work
    env       \* the date; daily jobs and failures so far

vars == <<orders, lots, marks, weekly, daily, env>>

Days == 1..MaxDay
Week(day) == (day - 1) \div WeekLength + 1
Weeks == {Week(d) : d \in Days}

\* `runs' counts the runs of a week that recorded an order; `net' the shares bought
\* and not sold again.
Orders == [spent : Nat, earned : Nat, net : [Tickers -> Nat], runs : [Weeks -> Nat]]
Lot == [ticker : Tickers, shares : Nat \ {0}, since : Days]
Lots == SUBSET Lot
NoOrders == [spent |-> 0, earned |-> 0, net |-> [t \in Tickers |-> 0],
             runs |-> [w \in Weeks |-> 0]]
Unmarked == [day |-> 0, net |-> [t \in Tickers |-> 0], lots |-> {}]

Run == [pc : {"idle", "load", "trade"}, at : DOMAIN Sleeves, day : Days, cash : Nat, lots : Lots,
        broken : BOOLEAN, errors : SUBSET Names, hit : SUBSET Names]
Marking == [pc : {"idle", "orders", "lots", "write"}, at : DOMAIN Sleeves, day : Days,
            net : [Tickers -> Nat], lots : Lots, broken : BOOLEAN]
Mark == [day : 0..MaxDay, net : [Tickers -> Nat], lots : Lots]

TypeOK ==
    /\ orders \in [Names -> Orders]
    /\ lots \in [Names -> Lots]
    /\ marks \in [Names -> Mark]
    /\ weekly \in Run
    /\ daily \in Marking
    /\ env \in [day : Days, markings : 0..MaxMarkings, faults : 0..MaxFaults,
                crashes : 0..MaxCrashes]

NoRun == [pc |-> "idle", at |-> 1, day |-> 1, cash |-> 0, lots |-> {}, broken |-> FALSE,
          errors |-> {}, hit |-> {}]
NoMarking == [pc |-> "idle", at |-> 1, day |-> 1, net |-> [t \in Tickers |-> 0], lots |-> {},
              broken |-> FALSE]

Init ==
    /\ orders = [s \in Names |-> NoOrders]
    /\ lots = [s \in Names |-> {}]
    /\ marks = [s \in Names |-> Unmarked]
    /\ weekly = NoRun
    /\ daily = NoMarking
    /\ env = [day |-> 1, markings |-> 0, faults |-> 0, crashes |-> 0]

Fault ==
    /\ env.faults < MaxFaults
    /\ env' = [env EXCEPT !.faults = @ + 1]

-----------------------------------------------------------------------------
\* The weekly run.

Sleeve == Sleeves[weekly.at]

\* derive_cash: the starting cash and the filled orders.
Cash(s) == StartingCash - orders[s].spent + orders[s].earned

\* paper_weekly_job, or the CLI for the current date: a session of its own.
StartWeekly ==
    /\ weekly.pc = "idle"
    /\ weekly' = [NoRun EXCEPT !.pc = "load", !.day = env.day]
    /\ UNCHANGED <<orders, lots, marks, daily, env>>

\* On to the next sleeve; the session is closed after the last one.
Advance(run) ==
    IF run.at = Len(Sleeves) THEN [NoRun EXCEPT !.errors = run.errors, !.hit = run.hit]
    ELSE [run EXCEPT !.pc = "load", !.at = @ + 1, !.cash = 0, !.lots = {}]

\* Mutant of AlreadyRan: no check.
AlwaysRuns(s, week) == FALSE

\* The idempotency check: some order of the sleeve carries the week key.
AlreadyRan(s, week) == orders[s].runs[week] > 0

\* The sleeve's targets are computed, its broker rebuilt from the filled orders and
\* the open positions, and the week looked up: done, or to be traded.
Load ==
    /\ weekly.pc = "load"
    /\ ~weekly.broken
    /\ IF AlreadyRan(Sleeve, Week(weekly.day))
       THEN weekly' = Advance(weekly)
       ELSE weekly' = [weekly EXCEPT !.pc = "trade", !.cash = Cash(Sleeve), !.lots = lots[Sleeve]]
    /\ UNCHANGED <<orders, lots, marks, daily, env>>

\* A statement or the commit fails: run_once logs the sleeve and goes on with the
\* same session, which refuses every statement until it is rolled back.
Fails ==
    /\ weekly.pc \in {"load", "trade"}
    /\ ~weekly.broken
    /\ Fault
    /\ weekly' = Advance([weekly EXCEPT !.broken = TRUE, !.errors = @ \cup {Sleeve},
                                        !.hit = @ \cup {Sleeve}])
    /\ UNCHANGED <<orders, lots, marks, daily>>

Refused ==
    /\ weekly.pc = "load"
    /\ weekly.broken
    /\ weekly' = Advance([weekly EXCEPT !.errors = @ \cup {Sleeve}])
    /\ UNCHANGED <<orders, lots, marks, daily, env>>

\* Mutant of Aged: the benchmark is aged out like the others.
AgedEverywhere(s) == {l \in weekly.lots : weekly.day - l.since >= HoldDays}

\* Positions past the hold window; a buy-and-hold sleeve has none.
Aged(s) ==
    IF s \in BuyAndHold THEN {} ELSE {l \in weekly.lots : weekly.day - l.since >= HoldDays}

\* Mutant of Kept: a position that was sold keeps its open status.
KeptOpen(sold) == weekly.lots

\* The positions still open after the exits; a sold one is closed.
Kept(sold) == weekly.lots \ sold

\* Targets that are not held.
Fresh(targets, kept) == targets \ {l.ticker : l \in kept}

\* floor(cash / n / price): an equal share of the cash, in whole shares.
Shares(cash, n, price) == cash \div (n * price)

Worth(held, price) == SumFunction([l \in held |-> l.shares * price[l.ticker]])

\* The shares of a ticker in a set of lots.
SharesIn(held, t) == SumFunction([l \in held |-> IF l.ticker = t THEN l.shares ELSE 0])

\* The rest of run_week, one transaction: aged positions that have a mark are sold,
\* new targets that have one are bought from the cash there is then.  An order for
\* all of the cash may be rejected: the share count is a rounded float.
Trade(targets, price) ==
    LET s == Sleeve
        old == orders[s]
        week == Week(weekly.day)
        sold == {l \in Aged(s) : price[l.ticker] > 0}
        kept == Kept(sold)
        cash == weekly.cash + Worth(sold, price)
        priced == {t \in Fresh(targets, kept) : price[t] > 0}
        size == [t \in priced |-> Shares(cash, Cardinality(priced), price[t])]
        asked == {t \in priced : size[t] >= 1}
        Cost(some) == SumFunction([t \in some |-> size[t] * price[t]])
    IN  /\ weekly.pc = "trade"
        /\ \E rejected \in SUBSET asked :
             LET filled == asked \ rejected
                 bought == {[ticker |-> t, shares |-> size[t], since |-> weekly.day] : t \in filled}
             IN  /\ rejected # {} => Cost(asked) = cash /\ Cardinality(rejected) = 1
                 /\ lots' = [lots EXCEPT ![s] = kept \cup bought]
                 /\ orders' = [orders EXCEPT ![s] =
                      [spent |-> old.spent + Cost(filled),
                       earned |-> old.earned + Worth(sold, price),
                       net |-> [t \in Tickers |-> old.net[t] + SharesIn(bought, t) - SharesIn(sold, t)],
                       runs |-> [old.runs EXCEPT ![week] = IF sold \cup asked = {} THEN @ ELSE @ + 1]]]
        /\ weekly' = Advance(weekly)
        /\ UNCHANGED <<marks, daily, env>>

\* The weekly process is killed; what it had not committed is gone.
Crash ==
    /\ weekly.pc # "idle"
    /\ env.crashes < MaxCrashes
    /\ env' = [env EXCEPT !.crashes = @ + 1]
    /\ weekly' = NoRun
    /\ UNCHANGED <<orders, lots, marks, daily>>

-----------------------------------------------------------------------------
\* The daily marks, one query after the other: each sees what is committed by then.

Marked == Sleeves[daily.at]

\* paper_daily_marks_job, mark_all.
StartDaily ==
    /\ daily.pc = "idle"
    /\ env.markings < MaxMarkings
    /\ env' = [env EXCEPT !.markings = @ + 1]
    /\ daily' = [NoMarking EXCEPT !.pc = "orders", !.day = env.day]
    /\ UNCHANGED <<orders, lots, marks, weekly>>

NextMark(job) ==
    IF job.at = Len(Sleeves) THEN NoMarking
    ELSE [NoMarking EXCEPT !.pc = "orders", !.at = job.at + 1, !.day = job.day, !.broken = job.broken]

\* mark_sleeve: derive_cash reads the filled orders ...
ReadOrders ==
    /\ daily.pc = "orders"
    /\ ~daily.broken
    /\ daily' = [daily EXCEPT !.pc = "lots", !.net = orders[Marked].net]
    /\ UNCHANGED <<orders, lots, marks, weekly, env>>

\* ... then the open positions are read, and priced ...
ReadLots ==
    /\ daily.pc = "lots"
    /\ daily' = [daily EXCEPT !.pc = "write", !.lots = lots[Marked]]
    /\ UNCHANGED <<orders, lots, marks, weekly, env>>

\* ... and the row of the day is inserted or overwritten.
WriteMark ==
    /\ daily.pc = "write"
    /\ marks' = [marks EXCEPT ![Marked] = [day |-> daily.day, net |-> daily.net,
                                           lots |-> daily.lots]]
    /\ daily' = NextMark(daily)
    /\ UNCHANGED <<orders, lots, weekly, env>>

\* A failed statement, and the sleeves after it on the same session.
MarkFails ==
    /\ daily.pc # "idle"
    /\ \/ /\ daily.broken
          /\ UNCHANGED env
       \/ /\ ~daily.broken
          /\ Fault
    /\ daily' = NextMark([daily EXCEPT !.broken = TRUE])
    /\ UNCHANGED <<orders, lots, marks, weekly>>

NextDay ==
    /\ env.day < MaxDay
    /\ env' = [env EXCEPT !.day = @ + 1]
    /\ UNCHANGED <<orders, lots, marks, weekly, daily>>

Next ==
    \/ StartWeekly \/ Load \/ Fails \/ Refused \/ Crash
    \/ \E targets \in SUBSET Tickers, price \in [Tickers -> Prices \cup {0}] : Trade(targets, price)
    \/ StartDaily \/ ReadOrders \/ ReadLots \/ WriteMark \/ MarkFails
    \/ NextDay

Spec == Init /\ [][Next]_vars

-----------------------------------------------------------------------------
\* Properties.

\* The two records of a book agree: for every ticker the open positions hold what the filled
\* orders bought and did not sell, in one position at most.  The broker is rebuilt from one
\* record for cash and from the other for shares, which it keys by ticker.
BookMatchesOrders ==
    \A s \in Names :
        /\ \A t \in Tickers : SharesIn(lots[s], t) = orders[s].net[t]
        /\ \A k, l \in lots[s] : k.ticker = l.ticker => k = l

\* However often a week is started again, after kills, failures and on other days, one
\* run at most has traded in it.
WeekTradesOnce == \A s \in Names, w \in Weeks : orders[s].runs[w] <= 1

\* A position leaves the book only when it has aged, and never from a buy-and-hold sleeve.
SoldOnlyWhenAged ==
    [][\A s \in Names : \A l \in lots[s] \ lots'[s] :
         s \notin BuyAndHold /\ env.day - l.since >= HoldDays]_vars

\* No sleeve owes money: its filled orders never cost more than there was when they were
\* placed, a sale is the sleeve's before its purchases, and shares of the cash round down.
Solvent == \A s \in Names : Cash(s) >= 0
=============================================================================
