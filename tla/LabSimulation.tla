----------------------------- MODULE LabSimulation -----------------------------
(***************************************************************************)
(* The strategy lab's simulation (lab/engine/simulation.py): a loop over   *)
(* the dates of all tickers.  Signals are evaluated at the close and       *)
(* filled at the open of the ticker's next bar, exits first; not every     *)
(* ticker has a bar on every date.                                         *)
(***************************************************************************)
EXTENDS Integers, FiniteSets, FiniteSetsExt

CONSTANTS
    Tickers,
    Place,           \* ticker -> its place in matrix.indicators
    Dates,           \* the number of dates
    Prices,          \* opens and closes
    Specs            \* strategies: the sizing block [type, amount], starting_capital_usd,
                     \* max_concurrent_positions, and the costs in quarters of the price

ASSUME LabAssumption ==
    /\ IsFiniteSet(Tickers)
    /\ Place \in [Tickers -> Nat] /\ \A t, u \in Tickers : Place[t] = Place[u] => t = u
    /\ Dates \in Nat
    /\ Prices \subseteq Nat \ {0}
    /\ Specs \subseteq [type : {"fixed_pct", "equal_weight", "vol_targeted"}, amount : Nat,
                       capital : Nat, max_concurrent : Nat, cost_quarters : 0..4]

VARIABLES
    spec,              \* the strategy that is simulated
    cash,
    positions,         \* ticker -> the open position
    pending_entries,   \* ticker -> the date of the signal to enter, or None
    pending_exits,     \* ticker -> the date of the signal to exit, or None
    last_closes,       \* ticker -> its last close and the date of that bar
    bar,               \* the current date: its number, the opens, the part of the loop's body
    realized           \* the sum of the trades' pnl

vars == <<spec, cash, positions, pending_entries, pending_exits, last_closes, bar, realized>>

None == 0
NoPosition == [date |-> None, price |-> 0, shares |-> 0, cost |-> 0]
NoOpens == [t \in {} |-> 0]
Held == {t \in Tickers : positions[t].shares > 0}
Entering == {t \in Tickers : pending_entries[t] # None}
Trading == DOMAIN bar.opens

Init ==
    /\ spec \in Specs
    /\ cash = spec.capital
    /\ positions = [t \in Tickers |-> NoPosition]
    /\ pending_entries = [t \in Tickers |-> None]
    /\ pending_exits = [t \in Tickers |-> None]
    /\ last_closes = [t \in Tickers |-> [date |-> None, price |-> 0]]
    /\ bar = [date |-> 0, opens |-> NoOpens, part |-> "done", todo |-> {}]
    /\ realized = 0

-----------------------------------------------------------------------------
Cost(price, shares) == (price * shares * spec.cost_quarters) \div 4

\* The next date: some tickers have a bar.
NextDate ==
    /\ bar.part = "done" /\ bar.date < Dates
    /\ \E S \in SUBSET Tickers \ {{}} : \E opens \in [S -> Prices] :
         bar' = [date |-> bar.date + 1, opens |-> opens, part |-> "exits", todo |-> {}]
    /\ UNCHANGED <<spec, cash, positions, pending_entries, pending_exits, last_closes, realized>>

Pnl(pos, price, cost) == (price - pos.price) * pos.shares - pos.cost - cost

\* Yesterday's exits, at today's open; a ticker without a bar waits.
FillExit(t) ==
    /\ bar.part = "exits" /\ t \in Trading /\ pending_exits[t] # None
    /\ LET pos == positions[t]
           price == bar.opens[t]
           cost == Cost(price, pos.shares)
       IN  /\ cash' = cash + price * pos.shares - cost
           /\ realized' = realized + Pnl(pos, price, cost)
    /\ positions' = [positions EXCEPT ![t] = NoPosition]
    /\ pending_exits' = [pending_exits EXCEPT ![t] = None]
    /\ UNCHANGED <<spec, pending_entries, last_closes, bar>>

\* Mutant of ExitsDone: exits may be left for another bar.
ExitsSkipped ==
    /\ bar.part = "exits"
    /\ bar' = [bar EXCEPT !.part = "entries"]
    /\ UNCHANGED <<spec, cash, positions, pending_entries, pending_exits, last_closes, realized>>

\* After the exits, the entries that were pending when the loop began.
ExitsDone ==
    /\ bar.part = "exits"
    /\ \A t \in Trading : pending_exits[t] = None
    /\ bar' = [bar EXCEPT !.part = "entries"]
    /\ UNCHANGED <<spec, cash, positions, pending_entries, pending_exits, last_closes, realized>>

\* At today's open, or at the last close of a ticker without a bar.
EquityAtOpen ==
    cash + MapThenSumSet(LAMBDA t : positions[t].shares * (IF t \in Trading THEN bar.opens[t] ELSE last_closes[t].price), Held)

\* compute_position_dollars, rounded down: the shares are whole anyway. A signal's ATR is
\* never 0, see line 139.
Dollars ==
    CASE cash <= 0 -> 0
      [] cash > 0 /\ spec.type = "fixed_pct" -> (EquityAtOpen * spec.amount) \div 100
      [] cash > 0 /\ spec.type = "equal_weight" -> cash \div (Cardinality(Held) + 1)
      [] cash > 0 /\ spec.type = "vol_targeted" ->
           LET notional == spec.amount * 10 IN IF notional * 10 <= EquityAtOpen THEN notional ELSE EquityAtOpen \div 10

\* Mutant of Affordable: the fee is forgotten.
AffordableBeforeCost == cash

\* What the cash pays for with its cost, rounded down.
Affordable == (cash * 4) \div (4 + spec.cost_quarters)

\* The most whole shares that both allow.
MostShares(shares, price) ==
    /\ shares > 0 => shares * price <= Dollars
    /\ shares = Affordable \div price \/ (shares + 1) * price > Dollars

\* pending_entries in the order the signals came in: by date, and by place within a date.
Before(t, u) ==
    \/ pending_entries[t] < pending_entries[u]
    \/ pending_entries[t] = pending_entries[u] /\ Place[t] < Place[u]

HasSlot == Cardinality(Held) < spec.max_concurrent

\* An entry is filled at the open, or dropped: no slot, or not one share. One whose ticker
\* has no bar waits.
FillEntry(t) ==
    /\ bar.part = "entries" /\ t \in Trading \cap Entering
    /\ \A u \in (Trading \cap Entering) \ {t} : Before(t, u)
    /\ pending_entries' = [pending_entries EXCEPT ![t] = None]
    /\ LET price == bar.opens[t]
       IN  \E shares \in 0..(Affordable \div price) :
             /\ MostShares(shares, price)
             /\ IF HasSlot /\ shares > 0
                THEN /\ cash' = cash - (price * shares + Cost(price, shares))
                     /\ positions' = [positions EXCEPT ![t] =
                           [date |-> bar.date, price |-> price, shares |-> shares, cost |-> Cost(price, shares)]]
                ELSE UNCHANGED <<cash, positions>>
    /\ UNCHANGED <<spec, pending_exits, last_closes, bar, realized>>

EntriesDone ==
    /\ bar.part = "entries"
    /\ Trading \cap Entering = {}
    /\ bar' = [bar EXCEPT !.part = "signals", !.todo = Trading]
    /\ UNCHANGED <<spec, cash, positions, pending_entries, pending_exits, last_closes, realized>>

\* The bar of a ticker has closed: the exit blocks (and the reverse signal) are asked about a
\* position, filters and entry signals about the rest. The tickers' turns are independent.
Signal(t) ==
    /\ bar.part = "signals" /\ t \in bar.todo
    /\ bar' = [bar EXCEPT !.todo = @ \ {t}]
    /\ \E close \in Prices : last_closes' = [last_closes EXCEPT ![t] = [date |-> bar.date, price |-> close]]
    /\ \E fires \in BOOLEAN :
         /\ pending_exits' = IF fires /\ t \in Held THEN [pending_exits EXCEPT ![t] = bar.date] ELSE pending_exits
         /\ pending_entries' = IF fires /\ t \notin Held THEN [pending_entries EXCEPT ![t] = bar.date]
                               ELSE pending_entries
    /\ UNCHANGED <<spec, cash, positions, realized>>

SignalsDone ==
    /\ bar.part = "signals" /\ bar.todo = {}
    /\ bar' = [bar EXCEPT !.part = "done", !.opens = NoOpens]
    /\ UNCHANGED <<spec, cash, positions, pending_entries, pending_exits, last_closes, realized>>

Next ==
    \/ NextDate
    \/ \E t \in Tickers : FillExit(t) \/ FillEntry(t) \/ Signal(t)
    \/ ExitsDone
    \/ EntriesDone
    \/ SignalsDone

Spec == Init /\ [][Next]_vars
-----------------------------------------------------------------------------
\* Properties.

\* Every variable keeps its shape: a position has a date, a price and whole shares.
TypeOK ==
    /\ spec \in Specs
    /\ cash \in Int /\ realized \in Int
    /\ positions \in [Tickers -> [date : 0..Dates, price : Nat, shares : Nat, cost : Nat]]
    /\ pending_entries \in [Tickers -> 0..Dates]
    /\ pending_exits \in [Tickers -> 0..Dates]
    /\ last_closes \in [Tickers -> [date : 0..Dates, price : Nat]]
    /\ bar \in [date : 0..Dates, opens : UNION {[S -> Prices] : S \in SUBSET Tickers},
                part : {"exits", "entries", "signals", "done"}, todo : SUBSET Tickers]
    /\ bar.todo \subseteq Trading

\* The simulation never spends money it does not have, costs included, and never holds more
\* positions than the strategy allows, however many signals wait for one date.
LimitsHold == cash >= 0 /\ Cardinality(Held) <= spec.max_concurrent

\* What an exit or a mark looks up is there: a pending exit has its position (positions.pop),
\* a position without a bar today has a last close, and no ticker waits to enter while it is
\* held.
LookupsSucceed ==
    /\ \A t \in Tickers : pending_exits[t] # None => t \in Held
    /\ \A t \in Held \ Trading : last_closes[t].date # None
    /\ Entering \cap Held = {}

\* No look-ahead and no stale order, whatever gaps the bars have: a pending signal is of the
\* last bar its ticker has closed, and when orders are filled that bar is of an earlier date.
SignalsAreOfLastBar ==
    /\ \A t \in Tickers : pending_exits[t] # None => pending_exits[t] = last_closes[t].date
    /\ \A t \in Entering : pending_entries[t] = last_closes[t].date
    /\ bar.part \in {"exits", "entries"} => \A t \in Tickers : last_closes[t].date < bar.date

\* What is pending can be filled, and only by what was known: LookupsSucceed and
\* SignalsAreOfLastBar, which the loop's order (exits, entries, signals) upholds together.
PendingIsSound == LookupsSucceed /\ SignalsAreOfLastBar

\* What the open positions cost, fees included.
Invested == [t \in Tickers |-> positions[t].price * positions[t].shares + positions[t].cost]

\* The trades explain the account: cash and what the open positions cost, fees included, are
\* the starting capital and the pnl of the trades.
TradesExplainCash ==
    cash + SumFunctionOnSet(Invested, Held) = spec.capital + realized
=============================================================================
