----------------------------- MODULE BacktestBook -----------------------------
(***************************************************************************)
(* The portfolio of an agent backtest (src/backtesting): a loop over the   *)
(* business days in which the agent decides on every ticker and the        *)
(* executor fills what the portfolio allows, long and short, at the day's  *)
(* close.  Cash, margin, cost bases and realized gains are four records of *)
(* the same trades.                                                        *)
(***************************************************************************)
EXTENDS Integers, Sequences, FiniteSets, FiniteSetsExt

CONSTANTS
    Assets,          \* tickers
    AssetOrder,      \* the tickers in the order the engine trades them
    Days,            \* business days
    Closes,          \* prices of a share, in units that make averages exact
    MaxQuantity,     \* shares of one order
    InitialCash, MarginRequirements   \* initial_capital, initial_margin_requirement in percent

BacktestAssumption ==
    /\ IsFiniteSet(Assets) /\ AssetOrder \in Seq(Assets)
    /\ Closes \subseteq Nat \ {0}
    /\ MaxQuantity \in Nat /\ InitialCash \in Nat /\ MarginRequirements \subseteq Nat

VARIABLES
    money,       \* [cash, margin_used, margin_requirement]
    holdings,    \* ticker -> the PositionState
    gains,       \* ticker -> [long, short], realized
    day          \* [n, closes, todo]: the day, its prices, the tickers still to trade

bookVars == <<money, holdings, gains, day>>

Flat == [long |-> 0, short |-> 0, long_cost_basis |-> 0, short_cost_basis |-> 0, short_margin_used |-> 0]

BookInit ==
    /\ \E percent \in MarginRequirements :
         money = [cash |-> InitialCash, margin_used |-> 0, margin_requirement |-> percent]
    /\ holdings = [t \in Assets |-> Flat]
    /\ gains = [t \in Assets |-> [long |-> 0, short |-> 0]]
    /\ day = [n |-> 0, closes |-> [t \in Assets |-> 0], todo |-> <<>>]

-----------------------------------------------------------------------------
\* A day: without a price for every ticker it is skipped.
NextDay ==
    /\ day.todo = <<>> /\ day.n < Days
    /\ \/ day' = [day EXCEPT !.n = @ + 1]
       \/ \E closes \in [Assets -> Closes] : day' = [n |-> day.n + 1, closes |-> closes, todo |-> AssetOrder]
    /\ UNCHANGED <<money, holdings, gains>>

Smaller(a, b) == IF a <= b THEN a ELSE b
Margin(proceeds) == (proceeds * money.margin_requirement) \div 100

\* Mutant of Average: not weighted.
AverageOfPrices(basis, shares, price, q) == IF shares = 0 THEN price ELSE (basis + price) \div 2

\* The cost basis after q more shares.
Average(basis, shares, price, q) == (basis * shares + price * q) \div (shares + q)

\* Mutant of BuyFill: rounded up.
BuyFillCeiling(q, price) == IF money.cash <= 0 THEN 0 ELSE Smaller(q, money.cash \div price + 1)

\* What a buy fills: the order, or what the cash pays for.
BuyFill(q, price) == IF money.cash <= 0 THEN 0 ELSE Smaller(q, money.cash \div price)

Buy(t, q, price) ==
    LET h == holdings[t]
        fill == BuyFill(q, price)
    IN  /\ fill > 0
        /\ money' = [money EXCEPT !.cash = @ - fill * price]
        /\ holdings' = [holdings EXCEPT ![t].long = @ + fill,
                                        ![t].long_cost_basis = Average(@, h.long, price, fill)]
        /\ UNCHANGED gains

Sell(t, q, price) ==
    LET h == holdings[t]
        fill == Smaller(q, h.long)
    IN  /\ fill > 0
        /\ money' = [money EXCEPT !.cash = @ + fill * price]
        /\ gains' = [gains EXCEPT ![t].long = @ + (price - h.long_cost_basis) * fill]
        /\ holdings' = [holdings EXCEPT ![t].long = @ - fill,
                                        ![t].long_cost_basis = IF fill = h.long THEN 0 ELSE @]

\* What a short sale fills: the order, or what the cash that is no margin yet secures.
ShortFill(q, price) ==
    LET available == IF money.cash >= money.margin_used THEN money.cash - money.margin_used ELSE 0
    IN  IF Margin(price * q) <= available THEN q ELSE (available * 100) \div (price * money.margin_requirement)

Short(t, q, price) ==
    LET h == holdings[t]
        fill == ShortFill(q, price)
        margin == Margin(price * fill)
    IN  /\ fill > 0
        /\ money' = [money EXCEPT !.cash = @ + price * fill - margin, !.margin_used = @ + margin]
        /\ holdings' = [holdings EXCEPT ![t].short = @ + fill,
                                        ![t].short_cost_basis = Average(@, h.short, price, fill),
                                        ![t].short_margin_used = @ + margin]
        /\ UNCHANGED gains

\* The margin a cover sets free: its share.
Released(h, fill) == (h.short_margin_used * fill) \div h.short

Cover(t, q, price) ==
    LET h == holdings[t]
        fill == Smaller(q, h.short)
        release == Released(h, fill)
    IN  /\ fill > 0
        /\ money' = [money EXCEPT !.cash = @ + release - fill * price, !.margin_used = @ - release]
        /\ gains' = [gains EXCEPT ![t].short = @ + (h.short_cost_basis - price) * fill]
        /\ holdings' = [holdings EXCEPT ![t].short = @ - fill,
                                        ![t].short_cost_basis = IF fill = h.short THEN 0 ELSE @,
                                        ![t].short_margin_used = IF fill = h.short THEN 0 ELSE @ - release]

\* execute_trade on the agent's decision for the next ticker: any action and any quantity, for
\* nothing holds the agent to its allowed actions; what cannot be filled at all is a hold.
Trade ==
    /\ day.todo # <<>>
    /\ LET t == Head(day.todo)
           price == day.closes[t]
       IN  \E q \in 1..MaxQuantity :
             \/ Buy(t, q, price) \/ Sell(t, q, price) \/ Short(t, q, price) \/ Cover(t, q, price)
             \/ UNCHANGED <<money, holdings, gains>>
    /\ day' = [day EXCEPT !.todo = Tail(@)]

BookNext == NextDay \/ Trade

BookSpec == BookInit /\ [][BookNext]_bookVars

-----------------------------------------------------------------------------
\* Properties.

\* The cost of what is held, less what the open short positions were sold for, and the gains.
Booked == [t \in Assets |-> holdings[t].long * holdings[t].long_cost_basis
                             - holdings[t].short * holdings[t].short_cost_basis]
Gained == [t \in Assets |-> gains[t].long + gains[t].short]
Secured == [t \in Assets |-> holdings[t].short_margin_used]

\* The books balance: cash, margin and the cost of what is held, less what the open short
\* positions were sold for, are the initial cash and the realized gains, in whatever order
\* positions were averaged, closed in parts and opened again.
GainsExplainCash ==
    money.cash + money.margin_used + SumFunction(Booked) = InitialCash + SumFunction(Gained)

\* The account's margin is that of its short positions, and a position that is closed leaves
\* neither margin nor cost basis for the next one to start from.
MarginMatchesShorts ==
    /\ money.margin_used = SumFunction(Secured)
    /\ \A t \in Assets :
         LET h == holdings[t]
         IN  /\ h.long >= 0 /\ h.short >= 0 /\ h.short_margin_used >= 0
             /\ h.long = 0 => h.long_cost_basis = 0
             /\ h.short = 0 => h.short_cost_basis = 0 /\ h.short_margin_used = 0

\* Only buying back shorted shares may leave the account with less than no cash: a buy or a
\* new short position never spends what is not there.
OnlyCoversOverdraw ==
    [][money'.cash < money.cash /\ money'.cash < 0 => \E t \in Assets : holdings'[t].short < holdings[t].short]_bookVars
=============================================================================
