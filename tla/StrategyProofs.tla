----------------------------- MODULE StrategyProofs -----------------------------
(***************************************************************************)
(* Theorems about strategies, for any tickers, dates, prices, orders and   *)
(* requests: the lab's simulation (LabSimulation), whose module            *)
(* MCStrategies extends, and the components it instantiates, the account   *)
(* of the agents' portfolio (BacktestBook), the chat of a lab strategy     *)
(* (LabStrategies) and the rounds that evolve the scanner's configuration  *)
(* (EvolveLoop).  The money of a backtest is a sum over positions:         *)
(* SumFacts.                                                               *)
(***************************************************************************)
EXTENDS MCStrategies, Sequences, SumFacts

\* The parts of the loop's body: what a ticker with a bar may still have pending, and which
\* date it closed last.
PartInv ==
    /\ bar.part # "done" => bar.date # 0
    /\ bar.part = "done" => Trading = {}
    /\ bar.part = "entries" => \A t \in Trading : pending_exits[t] = None
    /\ bar.part = "signals" =>
         /\ \A t \in bar.todo : pending_exits[t] = None /\ pending_entries[t] = None
         /\ \A t \in Trading \ bar.todo : last_closes[t].date = bar.date
    /\ \A t \in Tickers : last_closes[t].date <= bar.date

IInv == TypeOK /\ LimitsHold /\ LookupsSucceed /\ SignalsAreOfLastBar /\ PartInv

-----------------------------------------------------------------------------
\* A quotient of naturals times its divisor is at most the dividend.
LEMMA Quotient ==
  ASSUME NEW n \in Nat, NEW d \in Nat \ {0}
  PROVE  n \div d \in Nat /\ d * (n \div d) <= n
OBVIOUS

LEMMA ProductNat ==
  ASSUME NEW a \in Nat, NEW b \in Nat
  PROVE  a * b \in Nat
OBVIOUS

LEMMA ProductLe ==
  ASSUME NEW a \in Nat, NEW b \in Nat, NEW c \in Nat, a <= b
  PROVE  c * a <= c * b
<1> DEFINE d == b - a
<1>1. d \in Nat /\ b = a + d
  OBVIOUS
<1>2. c * d \in Nat
  BY <1>1, ProductNat
<1>3. c * b = c * a + c * d
  BY <1>1
<1>4. c * a \in Nat
  BY ProductNat
<1> HIDE DEF d
<1> QED BY <1>2, <1>3, <1>4

\* What Affordable allows is paid for by the cash, costs included.
LEMMA CashPays ==
  ASSUME NEW c \in Nat, NEW q \in 0..4, NEW p \in Nat \ {0},
         NEW n \in 0..(((c * 4) \div (4 + q)) \div p)
  PROVE  /\ (p * n * q) \div 4 \in Nat
         /\ p * n + (p * n * q) \div 4 <= c
<1> DEFINE a == (c * 4) \div (4 + q)
           v == p * n
           f == (v * q) \div 4
<1>1. a \in Nat /\ (4 + q) * a <= c * 4
  BY Quotient
<1>2. a \div p \in Nat /\ p * (a \div p) <= a
  BY <1>1, Quotient
<1>3. v \in Nat /\ v <= a
  <2>1. n \in Nat /\ n <= a \div p
    BY <1>2
  <2>2. p * n <= p * (a \div p)
    BY <1>2, <2>1, ProductLe
  <2>3. p * n \in Nat /\ p * (a \div p) \in Nat
    BY <1>2, <2>1, ProductNat
  <2> QED BY <1>1, <1>2, <2>2, <2>3
<1>4. (4 + q) * v <= c * 4
  <2> HIDE DEF a, v
  <2>1. (4 + q) * v <= (4 + q) * a
    BY <1>1, <1>3, ProductLe
  <2>2. (4 + q) * v \in Nat /\ (4 + q) * a \in Nat
    BY <1>1, <1>3, ProductNat
  <2> QED BY <1>1, <2>1, <2>2
<1>5. v * q \in Nat
  <2> HIDE DEF v
  <2> QED BY <1>3, ProductNat
<1>6. f \in Nat /\ 4 * f <= v * q
  <2> HIDE DEF v
  <2> QED BY <1>5, Quotient
<1> HIDE DEF a, v, f
<1>7. (4 + q) * v = 4 * v + v * q
  BY <1>3
<1>8. v + f <= c
  BY <1>3, <1>4, <1>5, <1>6, <1>7
<1> QED BY <1>6, <1>8 DEF v, f

-----------------------------------------------------------------------------
Bars == [date : 0..Dates, opens : UNION {[S -> Prices] : S \in SUBSET Tickers},
         part : {"exits", "entries", "signals", "done"}, todo : SUBSET Tickers]
Position == [date : 0..Dates, price : Nat, shares : Nat, cost : Nat]
Close == [date : 0..Dates, price : Nat]

LEMMA OpensType ==
  ASSUME NEW o \in UNION {[S -> Prices] : S \in SUBSET Tickers}
  PROVE  DOMAIN o \subseteq Tickers /\ \A t \in DOMAIN o : o[t] \in Nat \ {0}
<1>1. PICK S \in SUBSET Tickers : o \in [S -> Prices]
  OBVIOUS
<1> QED BY <1>1, LabAssumption

LEMMA HeldFinite == IsFiniteSet(Held) /\ Cardinality(Held) \in Nat
<1>1. Held \in SUBSET Tickers
  BY DEF Held
<1>2. IsFiniteSet(Held)
  BY <1>1, FS_Subset, LabAssumption
<1> QED BY <1>2, FS_CardinalityType

LEMMA SpecType ==
  ASSUME NEW s \in Specs
  PROVE  s.capital \in Nat /\ s.max_concurrent \in Nat /\ s.cost_quarters \in 0..4
BY LabAssumption

-----------------------------------------------------------------------------
LEMMA InvInit == Init => IInv
<1> SUFFICES ASSUME Init PROVE IInv
  OBVIOUS
<1>1. Dates \in Nat /\ 0 \in 0..Dates /\ 0 \in Nat
  BY LabAssumption
<1>2. Trading = {}
  BY DEF Init, Trading, NoOpens
<1>3. \A t \in Tickers : positions[t] = NoPosition /\ pending_entries[t] = None
                         /\ pending_exits[t] = None /\ last_closes[t].date = 0
  BY DEF Init, None
<1>4. Held = {} /\ Entering = {}
  BY <1>3 DEF Held, Entering, NoPosition
<1>5. TypeOK
  <2>1. spec \in Specs /\ cash \in Int /\ realized \in Int
    BY SpecType DEF Init
  <2>2. positions \in [Tickers -> Position]
    <3>1. NoPosition \in Position
      BY <1>1 DEF NoPosition, Position, None
    <3> QED BY <3>1 DEF Init
  <2>3. pending_entries \in [Tickers -> 0..Dates] /\ pending_exits \in [Tickers -> 0..Dates]
    BY <1>1 DEF Init, None
  <2>4. last_closes \in [Tickers -> Close]
    <3>1. [date |-> None, price |-> 0] \in Close
      BY <1>1 DEF Close, None
    <3> QED BY <3>1 DEF Init
  <2>5. bar \in Bars
    <3>1. NoOpens \in [{} -> Prices]
      BY DEF NoOpens
    <3>2. NoOpens \in UNION {[S -> Prices] : S \in SUBSET Tickers}
      BY <3>1
    <3> QED BY <1>1, <3>2 DEF Init, Bars
  <2>6. bar.todo \subseteq Trading
    BY DEF Init
  <2> QED BY <2>1, <2>2, <2>3, <2>4, <2>5, <2>6 DEF TypeOK, Position, Close, Bars
<1>6. LimitsHold
  BY <1>4, FS_EmptySet, SpecType DEF Init, LimitsHold
<1>7. LookupsSucceed
  BY <1>3, <1>4 DEF LookupsSucceed
<1>8. SignalsAreOfLastBar
  BY <1>3, <1>4 DEF SignalsAreOfLastBar, Init
<1>9. PartInv
  BY <1>1, <1>2, <1>3 DEF PartInv, Init
<1> QED BY <1>5, <1>6, <1>7, <1>8, <1>9 DEF IInv

\* Steps that leave the account alone.
LEMMA SameAccount ==
  ASSUME LimitsHold, UNCHANGED <<spec, cash, positions>>
  PROVE  LimitsHold' /\ Held' = Held
BY DEF LimitsHold, Held

LEMMA NextDateInv ==
  ASSUME IInv, NextDate
  PROVE  IInv'
<1>a. PICK S \in SUBSET Tickers \ {{}} : \E opens \in [S -> Prices] :
        bar' = [date |-> bar.date + 1, opens |-> opens, part |-> "exits", todo |-> {}]
  BY DEF NextDate
<1>1. PICK opens \in [S -> Prices] :
        bar' = [date |-> bar.date + 1, opens |-> opens, part |-> "exits", todo |-> {}]
  BY <1>a
<1>2. /\ bar.part = "done" /\ bar.date < Dates
      /\ UNCHANGED <<spec, cash, positions, pending_entries, pending_exits, last_closes, realized>>
  BY DEF NextDate
<1>3. Dates \in Nat /\ bar.date \in 0..Dates
  BY LabAssumption DEF IInv, TypeOK
<1>4. bar.date + 1 \in 0..Dates /\ bar.date + 1 # 0
  BY <1>2, <1>3
<1>5. bar'.date = bar.date + 1 /\ bar'.opens = opens /\ bar'.part = "exits" /\ bar'.todo = {}
  BY <1>1
<1>6. LimitsHold' /\ Held' = Held
  BY <1>2, SameAccount DEF IInv
<1>7. Entering' = Entering
  BY <1>2 DEF Entering
<1>8. TypeOK'
  <2>1. bar' \in Bars
    <3>1. opens \in UNION {[T -> Prices] : T \in SUBSET Tickers}
      OBVIOUS
    <3> QED BY <1>1, <1>4, <3>1 DEF Bars
  <2>2. bar'.todo \subseteq Trading'
    BY <1>5
  <2> QED BY <1>2, <2>1, <2>2 DEF IInv, TypeOK, Bars
<1>9. \A t \in Tickers : last_closes[t].date \in 0..Dates /\ last_closes[t].date < bar.date + 1
  BY <1>3 DEF IInv, TypeOK, PartInv
<1>10. LookupsSucceed'
  BY <1>2, <1>6, <1>7 DEF IInv, LookupsSucceed, PartInv
<1>11. SignalsAreOfLastBar'
  BY <1>2, <1>5, <1>7, <1>9 DEF IInv, SignalsAreOfLastBar
<1>12. PartInv'
  BY <1>2, <1>4, <1>5, <1>9 DEF PartInv
<1> QED BY <1>6, <1>8, <1>10, <1>11, <1>12 DEF IInv

LEMMA FillExitInv ==
  ASSUME IInv, NEW x \in Tickers, FillExit(x)
  PROVE  IInv'
<1> DEFINE pos == positions[x]
           price == bar.opens[x]
           cost == Cost(price, pos.shares)
<1>1. /\ bar.part = "exits" /\ x \in Trading /\ pending_exits[x] # None
      /\ cash' = cash + price * pos.shares - cost
      /\ realized' = realized + Pnl(pos, price, cost)
      /\ positions' = [positions EXCEPT ![x] = NoPosition]
      /\ pending_exits' = [pending_exits EXCEPT ![x] = None]
      /\ UNCHANGED <<spec, pending_entries, last_closes, bar>>
  BY DEF FillExit
<1>2. /\ positions \in [Tickers -> Position] /\ pos \in Position
      /\ pending_exits \in [Tickers -> 0..Dates]
  BY DEF IInv, TypeOK, Position
<1>3. Dates \in Nat /\ 0 \in 0..Dates
  BY LabAssumption
<1>4. NoPosition \in Position
  BY <1>3 DEF NoPosition, Position, None
<1>5. \A t \in Tickers : positions'[t] = IF t = x THEN NoPosition ELSE positions[t]
  BY <1>1, <1>2
<1>6. \A t \in Tickers : pending_exits'[t] = IF t = x THEN None ELSE pending_exits[t]
  BY <1>1, <1>2
<1>7. Held' = Held \ {x}
  BY <1>5 DEF Held, NoPosition
<1>8. Entering' = Entering /\ Trading' = Trading
  BY <1>1 DEF Entering, Trading
<1>9. price \in Nat /\ pos.shares \in Nat /\ pos.price \in Nat /\ pos.cost \in Nat /\ spec.cost_quarters \in 0..4
  <2>1. price \in Nat
    BY <1>1, OpensType DEF IInv, TypeOK, Trading
  <2> QED BY <1>2, <2>1, SpecType DEF IInv, TypeOK, Position
<1>10. cost \in Nat /\ cost <= price * pos.shares
  <2> DEFINE v == price * pos.shares
             w == v * spec.cost_quarters
  <2>1. v \in Nat
    BY <1>9, ProductNat
  <2> HIDE DEF v
  <2>2. w \in Nat /\ w <= v * 4
    BY <1>9, <2>1, ProductNat, ProductLe
  <2> HIDE DEF w
  <2>3. w \div 4 \in Nat /\ 4 * (w \div 4) <= w
    BY <2>2, Quotient
  <2>4. w \div 4 <= v
    BY <2>1, <2>2, <2>3
  <2>5. cost = w \div 4
    BY DEF Cost, v, w
  <2> QED BY <2>3, <2>4, <2>5 DEF v
<1>11. price * pos.shares \in Nat
  BY <1>9, ProductNat
<1>12. Pnl(pos, price, cost) \in Int
  <2> HIDE DEF cost, price
  <2>1. price - pos.price \in Int /\ (price - pos.price) * pos.shares \in Int
    BY <1>9
  <2> QED BY <1>9, <1>10, <2>1 DEF Pnl
<1>13. cash \in Int /\ cash >= 0 /\ realized \in Int
  BY DEF IInv, TypeOK, LimitsHold
<1> HIDE DEF pos, price, cost
<1>14. cash' \in Int /\ cash' >= 0 /\ realized' \in Int
  BY <1>1, <1>10, <1>11, <1>12, <1>13
<1>15. TypeOK'
  <2>1. positions' \in [Tickers -> Position]
    BY <1>1, <1>2, <1>4
  <2>2. pending_exits' \in [Tickers -> 0..Dates]
    BY <1>1, <1>2, <1>3 DEF None
  <2> QED BY <1>1, <1>8, <1>14, <2>1, <2>2 DEF IInv, TypeOK, Position
<1>16. LimitsHold'
  <2>1. Cardinality(Held') <= Cardinality(Held) /\ Cardinality(Held') \in Nat
    BY <1>7, HeldFinite, FS_Subset, FS_CardinalityType
  <2>2. spec.max_concurrent \in Nat /\ Cardinality(Held) <= spec.max_concurrent
    BY SpecType DEF IInv, TypeOK, LimitsHold
  <2> QED BY <1>1, <1>14, <2>1, <2>2, HeldFinite DEF LimitsHold
<1>17. LookupsSucceed'
  BY <1>1, <1>6, <1>7, <1>8 DEF IInv, LookupsSucceed
<1>18. SignalsAreOfLastBar'
  BY <1>1, <1>6, <1>8 DEF IInv, SignalsAreOfLastBar
<1>19. PartInv'
  BY <1>1, <1>6, <1>8 DEF IInv, PartInv
<1> QED BY <1>15, <1>16, <1>17, <1>18, <1>19 DEF IInv

LEMMA ExitsDoneInv ==
  ASSUME IInv, ExitsDone
  PROVE  IInv'
<1>1. /\ bar.part = "exits" /\ \A t \in Trading : pending_exits[t] = None
      /\ bar' = [bar EXCEPT !.part = "entries"]
      /\ UNCHANGED <<spec, cash, positions, pending_entries, pending_exits, last_closes, realized>>
  BY DEF ExitsDone
<1>2. bar \in Bars
  BY DEF IInv, TypeOK, Bars
<1>3. bar' \in Bars /\ bar'.part = "entries" /\ bar'.date = bar.date /\ bar'.opens = bar.opens /\ bar'.todo = bar.todo
  BY <1>1, <1>2 DEF Bars
<1>4. LimitsHold' /\ Held' = Held
  BY <1>1, SameAccount DEF IInv
<1>5. Entering' = Entering /\ Trading' = Trading
  BY <1>1, <1>3 DEF Entering, Trading
<1>6. TypeOK'
  BY <1>1, <1>3, <1>5 DEF IInv, TypeOK, Bars
<1>7. LookupsSucceed'
  BY <1>1, <1>4, <1>5 DEF IInv, LookupsSucceed
<1>8. SignalsAreOfLastBar'
  BY <1>1, <1>3, <1>5 DEF IInv, SignalsAreOfLastBar
<1>9. PartInv'
  BY <1>1, <1>3, <1>5 DEF IInv, PartInv
<1> QED BY <1>4, <1>6, <1>7, <1>8, <1>9 DEF IInv

LEMMA FillEntryInv ==
  ASSUME IInv, NEW x \in Tickers, FillEntry(x)
  PROVE  IInv'
<1> DEFINE price == bar.opens[x]
<1>1. /\ bar.part = "entries" /\ x \in Trading \cap Entering
      /\ pending_entries' = [pending_entries EXCEPT ![x] = None]
      /\ UNCHANGED <<spec, pending_exits, last_closes, bar, realized>>
  BY DEF FillEntry
<1>2. PICK shares \in 0..(Affordable \div price) :
        IF HasSlot /\ shares > 0
        THEN /\ cash' = cash - (price * shares + Cost(price, shares))
             /\ positions' = [positions EXCEPT ![x] =
                   [date |-> bar.date, price |-> price, shares |-> shares, cost |-> Cost(price, shares)]]
        ELSE UNCHANGED <<cash, positions>>
  BY DEF FillEntry
<1>3. /\ positions \in [Tickers -> Position] /\ bar.date \in 0..Dates
      /\ pending_entries \in [Tickers -> 0..Dates]
  BY DEF IInv, TypeOK, Position
<1>4. Dates \in Nat /\ 0 \in 0..Dates
  BY LabAssumption
<1>5. price \in Nat \ {0}
  BY <1>1, OpensType DEF IInv, TypeOK, Trading
<1>6. cash \in Nat /\ spec.cost_quarters \in 0..4 /\ spec.max_concurrent \in Nat
  BY SpecType DEF IInv, TypeOK, LimitsHold
<1>7. /\ Cost(price, shares) \in Nat
      /\ price * shares + Cost(price, shares) <= cash
      /\ shares \in Nat /\ price * shares \in Nat
  <2> HIDE DEF price
  <2>1. shares \in 0..(((cash * 4) \div (4 + spec.cost_quarters)) \div price)
    BY DEF Affordable
  <2>2. /\ (price * shares * spec.cost_quarters) \div 4 \in Nat
        /\ price * shares + (price * shares * spec.cost_quarters) \div 4 <= cash
    BY <1>5, <1>6, <2>1, CashPays
  <2>3. shares \in Nat
    OBVIOUS
  <2> QED BY <1>5, <2>2, <2>3, ProductNat DEF Cost
<1> DEFINE new == [date |-> bar.date, price |-> price, shares |-> shares, cost |-> Cost(price, shares)]
<1>8. new \in Position /\ new.shares = shares
  BY <1>3, <1>5, <1>7 DEF Position
<1>9. \A t \in Tickers : pending_entries'[t] = IF t = x THEN None ELSE pending_entries[t]
  BY <1>1, <1>3
<1>10. Entering' = Entering \ {x} /\ Trading' = Trading
  BY <1>1, <1>9 DEF Entering, Trading
<1>11. x \notin Held
  BY <1>1 DEF IInv, LookupsSucceed
<1> HIDE DEF new, price
<1>12. /\ positions' \in [Tickers -> Position] /\ cash' \in Int /\ cash' >= 0
       /\ \/ Held' = Held
          \/ HasSlot /\ Held' = Held \cup {x}
  <2>1. CASE HasSlot /\ shares > 0
    <3>1. positions' = [positions EXCEPT ![x] = new] /\ cash' = cash - (price * shares + Cost(price, shares))
      BY <1>2, <2>1 DEF new
    <3>2. \A t \in Tickers : positions'[t] = IF t = x THEN new ELSE positions[t]
      BY <1>3, <3>1
    <3>3. Held' = Held \cup {x}
      BY <1>8, <2>1, <3>2 DEF Held
    <3>4. cash' \in Int /\ cash' >= 0
      BY <1>6, <1>7, <3>1
    <3>5. positions' \in [Tickers -> Position]
      BY <1>3, <1>8, <3>1
    <3> QED BY <2>1, <3>3, <3>4, <3>5
  <2>2. CASE ~(HasSlot /\ shares > 0)
    <3>1. UNCHANGED <<cash, positions>>
      BY <1>2, <2>2
    <3> QED BY <1>3, <1>6, <3>1 DEF Held
  <2> QED BY <2>1, <2>2
<1>13. TypeOK'
  <2>1. pending_entries' \in [Tickers -> 0..Dates]
    BY <1>1, <1>3, <1>4 DEF None
  <2> QED BY <1>1, <1>10, <1>12, <2>1 DEF IInv, TypeOK, Position
<1>14. LimitsHold'
  <2>1. IsFiniteSet(Held) /\ Cardinality(Held) \in Nat
    BY HeldFinite
  <2>2. CASE Held' = Held
    BY <1>1, <1>12, <2>2 DEF IInv, LimitsHold
  <2>3. CASE HasSlot /\ Held' = Held \cup {x}
    <3>1. Cardinality(Held \cup {x}) = Cardinality(Held) + 1
      BY <1>11, <2>1, FS_AddElement
    <3>2. Cardinality(Held) < spec.max_concurrent
      BY <2>3 DEF HasSlot
    <3> QED BY <1>1, <1>6, <1>12, <2>1, <2>3, <3>1, <3>2 DEF LimitsHold
  <2> QED BY <1>12, <2>2, <2>3
<1>15. LookupsSucceed'
  <2>1. \A t \in Held' : t = x \/ t \in Held
    BY <1>12
  <2>2. Held \subseteq Held'
    BY <1>12
  <2>3. \A t \in Tickers : pending_exits'[t] # None => t \in Held'
    BY <1>1, <2>2 DEF IInv, LookupsSucceed
  <2>4. \A t \in Held' \ Trading' : last_closes'[t].date # None
    BY <1>1, <1>10, <2>1 DEF IInv, LookupsSucceed
  <2>5. Entering' \cap Held' = {}
    BY <1>10, <2>1 DEF IInv, LookupsSucceed
  <2> QED BY <2>3, <2>4, <2>5 DEF LookupsSucceed
<1>16. SignalsAreOfLastBar'
  BY <1>1, <1>9, <1>10 DEF IInv, SignalsAreOfLastBar
<1>17. PartInv'
  BY <1>1, <1>9, <1>10 DEF IInv, PartInv
<1> QED BY <1>13, <1>14, <1>15, <1>16, <1>17 DEF IInv

LEMMA EntriesDoneInv ==
  ASSUME IInv, EntriesDone
  PROVE  IInv'
<1>1. /\ bar.part = "entries" /\ Trading \cap Entering = {}
      /\ bar' = [bar EXCEPT !.part = "signals", !.todo = Trading]
      /\ UNCHANGED <<spec, cash, positions, pending_entries, pending_exits, last_closes, realized>>
  BY DEF EntriesDone
<1>2. bar \in Bars
  BY DEF IInv, TypeOK, Bars
<1>3. Trading \subseteq Tickers
  BY OpensType DEF IInv, TypeOK, Trading
<1>4. bar' \in Bars /\ bar'.part = "signals" /\ bar'.date = bar.date /\ bar'.opens = bar.opens /\ bar'.todo = Trading
  BY <1>1, <1>2, <1>3 DEF Bars
<1>5. LimitsHold' /\ Held' = Held
  BY <1>1, SameAccount DEF IInv
<1>6. Entering' = Entering /\ Trading' = Trading
  BY <1>1, <1>4 DEF Entering, Trading
<1>7. TypeOK'
  BY <1>1, <1>4, <1>6 DEF IInv, TypeOK, Bars
<1>8. LookupsSucceed'
  BY <1>1, <1>5, <1>6 DEF IInv, LookupsSucceed
<1>9. SignalsAreOfLastBar'
  BY <1>1, <1>4, <1>6 DEF IInv, SignalsAreOfLastBar
<1>10. PartInv'
  BY <1>1, <1>3, <1>4, <1>6 DEF IInv, PartInv, Entering
<1> QED BY <1>5, <1>7, <1>8, <1>9, <1>10 DEF IInv

LEMMA SignalInv ==
  ASSUME IInv, NEW x \in Tickers, Signal(x)
  PROVE  IInv'
<1>1. /\ bar.part = "signals" /\ x \in bar.todo
      /\ bar' = [bar EXCEPT !.todo = bar.todo \ {x}]
      /\ UNCHANGED <<spec, cash, positions, realized>>
  BY DEF Signal
<1>2. PICK close \in Prices : last_closes' = [last_closes EXCEPT ![x] = [date |-> bar.date, price |-> close]]
  BY DEF Signal
<1>3. PICK fires \in BOOLEAN :
        /\ pending_exits' = IF fires /\ x \in Held THEN [pending_exits EXCEPT ![x] = bar.date] ELSE pending_exits
        /\ pending_entries' = IF fires /\ x \notin Held THEN [pending_entries EXCEPT ![x] = bar.date]
                              ELSE pending_entries
  BY DEF Signal
<1>4. /\ bar \in Bars /\ bar.date \in 0..Dates
      /\ pending_entries \in [Tickers -> 0..Dates] /\ pending_exits \in [Tickers -> 0..Dates]
      /\ last_closes \in [Tickers -> Close]
  BY DEF IInv, TypeOK, Bars, Close
<1>5. Dates \in Nat /\ close \in Nat
  BY LabAssumption
<1>6. x \in Trading /\ pending_exits[x] = None /\ pending_entries[x] = None
  BY <1>1 DEF IInv, TypeOK, PartInv
<1>7. bar' \in Bars /\ bar'.part = "signals" /\ bar'.date = bar.date /\ bar'.opens = bar.opens
      /\ bar'.todo = bar.todo \ {x}
  BY <1>1, <1>4 DEF Bars
<1>8. LimitsHold' /\ Held' = Held
  BY <1>1, SameAccount DEF IInv
<1>9. Trading' = Trading
  BY <1>7 DEF Trading
<1> DEFINE new == [date |-> bar.date, price |-> close]
<1>10. new \in Close /\ new.date = bar.date
  BY <1>4, <1>5 DEF Close
<1>11. last_closes' = [last_closes EXCEPT ![x] = new]
  BY <1>2
<1> HIDE DEF new
<1>12. last_closes' \in [Tickers -> Close]
  BY <1>4, <1>10, <1>11
<1>13. \A t \in Tickers : last_closes'[t].date = IF t = x THEN bar.date ELSE last_closes[t].date
  BY <1>4, <1>10, <1>11
<1>14. /\ pending_exits' \in [Tickers -> 0..Dates]
       /\ \A t \in Tickers : pending_exits'[t] = pending_exits[t] \/ (t = x /\ x \in Held /\ pending_exits'[t] = bar.date)
  BY <1>3, <1>4
<1>15. /\ pending_entries' \in [Tickers -> 0..Dates]
       /\ \A t \in Tickers : pending_entries'[t] = pending_entries[t] \/ (t = x /\ x \notin Held /\ pending_entries'[t] = bar.date)
  BY <1>3, <1>4
<1>16. bar.date # 0
  BY <1>1 DEF IInv, PartInv
<1>17. TypeOK'
  <2>1. bar'.todo \subseteq Trading'
    BY <1>7, <1>9 DEF IInv, TypeOK
  <2> QED BY <1>1, <1>7, <1>12, <1>14, <1>15, <2>1 DEF IInv, TypeOK, Bars, Close
<1>18. LookupsSucceed'
  <2>1. \A t \in Tickers : pending_exits'[t] # None => t \in Held'
    BY <1>8, <1>14 DEF IInv, LookupsSucceed
  <2>2. \A t \in Held' \ Trading' : last_closes'[t].date # None
    BY <1>6, <1>8, <1>9, <1>13 DEF IInv, LookupsSucceed, Held
  <2>3. Entering' \cap Held' = {}
    BY <1>8, <1>15 DEF IInv, LookupsSucceed, Entering
  <2> QED BY <2>1, <2>2, <2>3 DEF LookupsSucceed
<1>19. SignalsAreOfLastBar'
  <2>1. \A t \in Tickers : pending_exits'[t] # None => pending_exits'[t] = last_closes'[t].date
    BY <1>6, <1>13, <1>14 DEF IInv, SignalsAreOfLastBar
  <2>2. \A t \in Entering' : pending_entries'[t] = last_closes'[t].date
    BY <1>6, <1>13, <1>15 DEF IInv, SignalsAreOfLastBar, Entering
  <2> QED BY <1>7, <2>1, <2>2 DEF SignalsAreOfLastBar
<1>20. PartInv'
  <2>1. \A t \in bar'.todo : pending_exits'[t] = None /\ pending_entries'[t] = None
    BY <1>1, <1>4, <1>7, <1>14, <1>15 DEF IInv, PartInv, Bars
  <2>2. \A t \in Trading' \ bar'.todo : last_closes'[t].date = bar'.date
    <3>1. Trading \subseteq Tickers
      BY OpensType DEF IInv, TypeOK, Trading
    <3> QED BY <1>1, <1>7, <1>9, <1>13, <3>1 DEF IInv, PartInv
  <2>3. \A t \in Tickers : last_closes'[t].date <= bar'.date
    BY <1>4, <1>5, <1>7, <1>13 DEF IInv, PartInv
  <2> QED BY <1>7, <1>16, <2>1, <2>2, <2>3 DEF PartInv
<1> QED BY <1>8, <1>17, <1>18, <1>19, <1>20 DEF IInv

LEMMA SignalsDoneInv ==
  ASSUME IInv, SignalsDone
  PROVE  IInv'
<1>1. /\ bar.part = "signals" /\ bar.todo = {}
      /\ bar' = [bar EXCEPT !.part = "done", !.opens = NoOpens]
      /\ UNCHANGED <<spec, cash, positions, pending_entries, pending_exits, last_closes, realized>>
  BY DEF SignalsDone
<1>2. bar \in Bars
  BY DEF IInv, TypeOK, Bars
<1>3. NoOpens \in UNION {[S -> Prices] : S \in SUBSET Tickers} /\ DOMAIN NoOpens = {}
  <2>1. NoOpens \in [{} -> Prices]
    BY DEF NoOpens
  <2> QED BY <2>1
<1>4. bar' \in Bars /\ bar'.part = "done" /\ bar'.date = bar.date /\ bar'.opens = NoOpens /\ bar'.todo = {}
  BY <1>1, <1>2, <1>3 DEF Bars
<1>5. LimitsHold' /\ Held' = Held
  BY <1>1, SameAccount DEF IInv
<1>6. Entering' = Entering /\ Trading' = {}
  BY <1>1, <1>3, <1>4 DEF Entering, Trading
<1>7. TypeOK'
  BY <1>1, <1>4, <1>6 DEF IInv, TypeOK, Bars
<1>8. LookupsSucceed'
  <2>1. \A t \in Held : last_closes[t].date # None
    BY <1>1 DEF IInv, LookupsSucceed, PartInv, None
  <2> QED BY <1>1, <1>5, <1>6, <2>1 DEF IInv, LookupsSucceed
<1>9. SignalsAreOfLastBar'
  BY <1>1, <1>4, <1>6 DEF IInv, SignalsAreOfLastBar
<1>10. PartInv'
  BY <1>1, <1>4, <1>6 DEF IInv, PartInv
<1> QED BY <1>5, <1>7, <1>8, <1>9, <1>10 DEF IInv

LEMMA StutterInv ==
  ASSUME IInv, UNCHANGED vars
  PROVE  IInv'
<1>1. Held' = Held /\ Entering' = Entering /\ Trading' = Trading
  BY DEF vars, Held, Entering, Trading
<1> QED BY <1>1 DEF IInv, TypeOK, LimitsHold, LookupsSucceed, SignalsAreOfLastBar, PartInv, vars

LEMMA InvNext == IInv /\ [Next]_vars => IInv'
<1> SUFFICES ASSUME IInv, [Next]_vars PROVE IInv'
  OBVIOUS
<1>1. CASE NextDate
  BY <1>1, NextDateInv
<1>2. CASE \E t \in Tickers : FillExit(t)
  BY <1>2, FillExitInv
<1>3. CASE \E t \in Tickers : FillEntry(t)
  BY <1>3, FillEntryInv
<1>4. CASE \E t \in Tickers : Signal(t)
  BY <1>4, SignalInv
<1>5. CASE ExitsDone
  BY <1>5, ExitsDoneInv
<1>6. CASE EntriesDone
  BY <1>6, EntriesDoneInv
<1>7. CASE SignalsDone
  BY <1>7, SignalsDoneInv
<1>8. CASE UNCHANGED vars
  BY <1>8, StutterInv
<1> QED BY <1>1, <1>2, <1>3, <1>4, <1>5, <1>6, <1>7, <1>8 DEF Next

LEMMA AlwaysInv == Spec => []IInv
<1>1. Init => IInv
  BY InvInit
<1>2. IInv /\ [Next]_vars => IInv'
  BY InvNext
<1> QED BY <1>1, <1>2, PTL DEF Spec

-----------------------------------------------------------------------------
\* The account of the simulation: cash, the cost of what is open and the pnl of the trades.

LEMMA InvestedIsWhole ==
  ASSUME TypeOK
  PROVE  /\ \A t \in Tickers : Invested[t] \in Int
         /\ IsFiniteSet(Held) /\ Held \subseteq Tickers
         /\ SumFunctionOnSet(Invested, Held) \in Int
<1>1. ASSUME NEW t \in Tickers
      PROVE  Invested[t] \in Int
  <2>1. positions[t].price \in Nat /\ positions[t].shares \in Nat /\ positions[t].cost \in Nat
    BY DEF TypeOK
  <2>2. positions[t].price * positions[t].shares \in Nat
    BY <2>1, ProductNat
  <2> QED
    BY <2>1, <2>2 DEF Invested
<1>2. Held \subseteq Tickers
  BY DEF Held
<1>3. IsFiniteSet(Held)
  BY HeldFinite
<1>4. \A t \in Held : Invested[t] \in Int
  BY <1>1, <1>2
<1> QED
  BY <1>1, <1>2, <1>3, <1>4, SumType

\* An exit turns what the position cost into cash and pnl.
LEMMA FillExitExplains ==
  ASSUME IInv, TradesExplainCash, NEW x \in Tickers, FillExit(x)
  PROVE  TradesExplainCash'
<1> DEFINE pos == positions[x]
           price == bar.opens[x]
           cost == Cost(price, pos.shares)
           value == price * pos.shares
           spent == pos.price * pos.shares
           sum == SumFunctionOnSet(Invested, Held)
           rest == SumFunctionOnSet(Invested, Held \ {x})
<1>1. /\ bar.part = "exits" /\ x \in Trading /\ pending_exits[x] # None
      /\ cash' = cash + value - cost /\ realized' = realized + Pnl(pos, price, cost)
      /\ positions' = [positions EXCEPT ![x] = NoPosition] /\ spec' = spec
  BY DEF FillExit
<1>2. positions \in [Tickers -> Position] /\ pos \in Position /\ TypeOK
  BY DEF IInv, TypeOK, Position
<1>3. x \in Held
  BY <1>1 DEF IInv, LookupsSucceed
<1>4. sum = Invested[x] + rest /\ Invested[x] = spent + pos.cost /\ rest \in Int
  <2>1. \A t \in Held : Invested[t] \in Int
    BY <1>2, InvestedIsWhole
  <2>2. IsFiniteSet(Held) /\ IsFiniteSet(Held \ {x})
    BY HeldFinite, FS_Subset
  <2>3. sum = Invested[x] + rest
    BY <1>3, <2>1, <2>2, SumRemove
  <2>4. rest \in Int
    BY <2>1, <2>2, SumType
  <2> QED
    BY <2>3, <2>4 DEF Invested
<1>5. SumFunctionOnSet(Invested, Held)' = rest
  <2>1. \A t \in Tickers : positions'[t] = IF t = x THEN NoPosition ELSE positions[t]
    BY <1>1, <1>2
  <2>2. Held' = Held \ {x}
    BY <2>1 DEF Held, NoPosition
  <2>3. \A t \in Held \ {x} : Invested'[t] = Invested[t]
    BY <2>1 DEF Invested, Held
  <2>4. IsFiniteSet(Held \ {x})
    BY HeldFinite, FS_Subset
  <2>5. SumFunctionOnSet(Invested', Held \ {x}) = rest
    BY <2>3, <2>4, SumSame
  <2> QED
    BY <2>2, <2>5
<1>6. /\ price \in Nat /\ pos.shares \in Nat /\ pos.price \in Nat /\ pos.cost \in Nat
      /\ spec.cost_quarters \in Nat /\ spec.capital \in Nat
  <2>1. price \in Nat
    BY <1>1, OpensType DEF IInv, TypeOK, Trading
  <2> QED
    BY <1>2, <2>1, SpecType DEF TypeOK, Position
<1>7. value \in Nat /\ spent \in Nat /\ cost \in Nat
  <2>1. value \in Nat /\ spent \in Nat
    BY <1>6, ProductNat
  <2>2. value * spec.cost_quarters \in Nat
    <3> HIDE DEF value
    <3> QED
      BY <1>6, <2>1, ProductNat
  <2> DEFINE w == value * spec.cost_quarters
  <2> HIDE DEF w
  <2>3. w \div 4 \in Nat
    BY <2>2, Quotient DEF w
  <2> QED
    BY <2>1, <2>3 DEF Cost, w
<1>8. Pnl(pos, price, cost) = (value - spent) - pos.cost - cost
  <2> DEFINE p == pos.price
             s == pos.shares
  <2>1. p \in Nat /\ s \in Nat
    BY <1>6
  <2> HIDE DEF p, s, price
  <2>2. (price - p) * s = price * s - p * s
    BY <1>6, <2>1
  <2> QED
    BY <2>2 DEF Pnl, p, s
<1>9. cash \in Int /\ realized \in Int /\ cash + sum = spec.capital + realized
  BY <1>2 DEF TypeOK, TradesExplainCash
<1> HIDE DEF pos, price, cost, value, spent, sum, rest
<1>10. cash' + rest = spec.capital + realized'
  <2>1. /\ cash' = cash + value - cost
        /\ realized' = realized + ((value - spent) - pos.cost - cost)
        /\ cash + ((spent + pos.cost) + rest) = spec.capital + realized
    BY <1>1, <1>4, <1>8, <1>9
  <2> DEFINE b == pos.cost
             k == spec.capital
  <2>2. b \in Int /\ k \in Int
    BY <1>6
  <2> HIDE DEF b, k
  <2>3. (cash + value - cost) + rest = k + (realized + ((value - spent) - b - cost))
    BY <1>4, <1>7, <1>9, <2>1, <2>2 DEF b, k
  <2> QED
    BY <2>1, <2>3 DEF b, k
<1> QED
  BY <1>1, <1>5, <1>10 DEF TradesExplainCash

\* An entry turns cash into the cost of the position.
LEMMA FillEntryExplains ==
  ASSUME IInv, TradesExplainCash, NEW x \in Tickers, FillEntry(x)
  PROVE  TradesExplainCash'
<1> DEFINE price == bar.opens[x]
           sum == SumFunctionOnSet(Invested, Held)
<1>1. bar.part = "entries" /\ x \in Trading \cap Entering /\ spec' = spec /\ realized' = realized
  BY DEF FillEntry
<1>2. PICK shares \in 0..(Affordable \div price) :
        IF HasSlot /\ shares > 0
        THEN /\ cash' = cash - (price * shares + Cost(price, shares))
             /\ positions' = [positions EXCEPT ![x] =
                   [date |-> bar.date, price |-> price, shares |-> shares, cost |-> Cost(price, shares)]]
        ELSE UNCHANGED <<cash, positions>>
  BY DEF FillEntry
<1>3. positions \in [Tickers -> Position] /\ TypeOK
  BY DEF IInv, TypeOK, Position
<1>4. price \in Nat /\ shares \in Int /\ spec.cost_quarters \in Nat /\ spec.capital \in Nat
  <2>1. price \in Nat
    BY <1>1, OpensType DEF IInv, TypeOK, Trading
  <2> QED
    BY <2>1, SpecType DEF IInv, TypeOK
<1>5. x \notin Held
  BY <1>1 DEF IInv, LookupsSucceed
<1>6. cash \in Int /\ realized \in Int /\ cash + sum = spec.capital + realized /\ sum \in Int
  BY <1>3, InvestedIsWhole DEF TypeOK, TradesExplainCash
<1>7. CASE HasSlot /\ shares > 0
  <2> DEFINE spent == price * shares + Cost(price, shares)
             new == [date |-> bar.date, price |-> price, shares |-> shares, cost |-> Cost(price, shares)]
  <2>1. cash' = cash - spent /\ positions' = [positions EXCEPT ![x] = new]
    BY <1>2, <1>7
  <2>2. new.shares = shares /\ new.price = price /\ new.cost = Cost(price, shares)
    OBVIOUS
  <2>3. spent \in Int
    <3> DEFINE v == price * shares
    <3>1. v \in Nat
      BY <1>4, <1>7, ProductNat
    <3> DEFINE w == v * spec.cost_quarters
    <3>2. w \in Nat
      <4> HIDE DEF v
      <4> QED
        BY <1>4, <3>1, ProductNat
    <3> HIDE DEF w
    <3>3. w \div 4 \in Nat
      BY <3>2, Quotient
    <3> QED
      BY <3>1, <3>3 DEF Cost, w
  <2> HIDE DEF new
  <2>4. \A t \in Tickers : positions'[t] = IF t = x THEN new ELSE positions[t]
    BY <1>3, <2>1
  <2>5. Held' = Held \cup {x}
    BY <1>7, <2>2, <2>4 DEF Held
  <2>6. Invested'[x] = spent /\ \A t \in Held : Invested'[t] = Invested[t]
    <3>1. Invested'[x] = spent
      BY <2>2, <2>4 DEF Invested
    <3> QED
      BY <1>5, <2>4, <3>1 DEF Invested, Held
  <2> HIDE DEF spent
  <2>7. SumFunctionOnSet(Invested', Held \cup {x}) = SumFunctionOnSet(Invested', Held) + Invested'[x]
    <3> DEFINE f == Invested'
               H == Held
    <3>1. IsFiniteSet(H) /\ x \notin H
      BY <1>5, HeldFinite
    <3>2. \A t \in H \cup {x} : f[t] \in Int
      BY <1>3, <2>3, <2>6, InvestedIsWhole
    <3> HIDE DEF f, H
    <3>3. SumFunctionOnSet(f, H \cup {x}) = SumFunctionOnSet(f, H) + f[x]
      BY <3>1, <3>2, SumAdd
    <3> QED
      BY <3>3 DEF f, H
  <2>8. SumFunctionOnSet(Invested', Held) = sum
    BY <2>6, HeldFinite, SumSame
  <2>9. SumFunctionOnSet(Invested, Held)' = sum + spent
    BY <2>5, <2>6, <2>7, <2>8
  <2> HIDE DEF sum
  <2>10. cash' + (sum + spent) = spec.capital + realized
    BY <1>6, <2>1, <2>3
  <2> QED
    BY <1>1, <2>9, <2>10 DEF TradesExplainCash
<1>8. CASE ~ (HasSlot /\ shares > 0)
  <2>1. UNCHANGED <<cash, positions>>
    BY <1>2, <1>8
  <2>2. Held' = Held /\ Invested' = Invested
    BY <2>1 DEF Held, Invested
  <2> QED
    BY <1>1, <2>1, <2>2 DEF TradesExplainCash
<1> QED
  BY <1>7, <1>8

LEMMA TradesStartExplained == Init => TradesExplainCash
<1> SUFFICES ASSUME Init PROVE TradesExplainCash
  OBVIOUS
<1>1. Held = {}
  BY DEF Init, Held, NoPosition
<1>2. SumFunctionOnSet(Invested, Held) = 0
  BY <1>1, SumEmpty
<1>3. spec.capital \in Nat /\ cash = spec.capital /\ realized = 0
  BY SpecType DEF Init
<1> QED
  BY <1>2, <1>3 DEF TradesExplainCash

LEMMA TradesStayExplained == IInv /\ TradesExplainCash /\ [Next]_vars => TradesExplainCash'
<1> SUFFICES ASSUME IInv, TradesExplainCash, [Next]_vars PROVE TradesExplainCash'
  OBVIOUS
<1>1. ASSUME UNCHANGED <<spec, cash, positions, realized>>
      PROVE  TradesExplainCash'
  <2>1. Held' = Held /\ Invested' = Invested
    BY <1>1 DEF Held, Invested
  <2> QED
    BY <1>1, <2>1 DEF TradesExplainCash
<1>2. CASE \E t \in Tickers : FillExit(t)
  BY <1>2, FillExitExplains
<1>3. CASE \E t \in Tickers : FillEntry(t)
  BY <1>3, FillEntryExplains
<1>4. CASE NextDate \/ ExitsDone \/ EntriesDone \/ SignalsDone \/ \E t \in Tickers : Signal(t)
  <2>1. UNCHANGED <<spec, cash, positions, realized>>
    BY <1>4 DEF NextDate, ExitsDone, EntriesDone, SignalsDone, Signal
  <2> QED
    BY <1>1, <2>1
<1>5. CASE UNCHANGED vars
  BY <1>1, <1>5 DEF vars
<1> QED
  BY <1>2, <1>3, <1>4, <1>5 DEF Next

-----------------------------------------------------------------------------
\* The simulation's variables keep their types (simulation.py 58-69).
THEOREM LabTypes == Spec => []TypeOK
<1>1. IInv => TypeOK
  BY DEF IInv
<1> QED BY <1>1, AlwaysInv, PTL

\* Whatever the strategy, the prices and the gaps, cash is never negative and no more
\* positions are open than the strategy allows (simulation.py 92-118, sizing.py).
THEOREM LimitsAlwaysHold == Spec => []LimitsHold
<1>1. IInv => LimitsHold
  BY DEF IInv
<1> QED BY <1>1, AlwaysInv, PTL

\* Whatever gaps the bars have, what is pending can be filled (positions.pop and
\* last_closes[...] never miss), is of the ticker's last closed bar and is filled on a
\* later date (simulation.py 71-142).
THEOREM PendingStaysSound == Spec => []PendingIsSound
<1>1. IInv => PendingIsSound
  BY DEF IInv, PendingIsSound
<1> QED BY <1>1, AlwaysInv, PTL

-----------------------------------------------------------------------------
\* The account of the agents' backtest (BacktestBook).

Holding == [long : Nat, short : Nat, long_cost_basis : Nat, short_cost_basis : Nat, short_margin_used : Nat]
Gain == [long : Int, short : Int]

Money == [cash : Int, margin_used : Nat, margin_requirement : Nat]
Day == [n : Int, closes : [Assets -> Nat], todo : Seq(Assets)]

RecordTypes == holdings \in [Assets -> Holding] /\ gains \in [Assets -> Gain]
DayTypes == day \in Day /\ (day.todo # <<>> => \A t \in Assets : day.closes[t] # 0)

BookInv == money \in Money /\ RecordTypes /\ DayTypes /\ Book!MarginMatchesShorts

\* The new average is exact, as it is for the source's floats up to their precision: the basis
\* times the shares grows by what the new shares cost, or were sold for.
ExactAverage(t, price) ==
    LET h == holdings[t]
        n == holdings'[t]
    IN  /\ n.long > h.long =>
             n.long * n.long_cost_basis = h.long * h.long_cost_basis + price * (n.long - h.long)
        /\ n.short > h.short =>
             n.short * n.short_cost_basis = h.short * h.short_cost_basis + price * (n.short - h.short)
ExactAverages == \A t \in Assets : ExactAverage(t, day.closes[t])

LEMMA BookConstants ==
  /\ IsFiniteSet(Assets) /\ AssetOrder \in Seq(Assets)
  /\ Closes \subseteq Nat \ {0}
  /\ MaxQuantity \in Nat /\ InitialCash \in Nat /\ MarginRequirements \subseteq Nat
BY StrategiesAssumption DEF Book!BacktestAssumption, Book!IsFiniteSet, IsFiniteSet

\* The sum that BacktestBook has from the library itself is that of this module.
LEMMA SumsAreOne == \A f : Book!SumFunction(f) = SumFunctionOnSet(f, DOMAIN f)
BY DEF Book!SumFunction, Book!SumFunctionOnSet, Book!FoldFunctionOnSet, Book!MapThenFoldSet,
       SumFunctionOnSet, FoldFunctionOnSet, MapThenFoldSet

LEMMA NatProductLe ==
  ASSUME NEW a \in Nat, NEW b \in Nat, NEW c \in Nat, a <= b
  PROVE  a * c <= b * c
<1> DEFINE d == b - a
<1>1. d \in Nat /\ b = a + d
  OBVIOUS
<1>2. d * c \in Nat /\ a * c \in Nat
  BY <1>1, ProductNat
<1>3. b * c = a * c + d * c
  BY <1>1
<1> HIDE DEF d
<1> QED
  BY <1>2, <1>3

LEMMA NatQuotient ==
  ASSUME NEW n \in Nat, NEW d \in Nat \ {0}
  PROVE  n \div d \in Nat /\ (n \div d) * d <= n
OBVIOUS

LEMMA MarginIsNat ==
  ASSUME money \in Money, NEW v \in Nat
  PROVE  Book!Margin(v) \in Nat /\ Book!Margin(v) * 100 <= v * money.margin_requirement
<1>1. money.margin_requirement \in Nat
  BY DEF Money
<1> DEFINE n == v * money.margin_requirement
<1>2. n \in Nat
  BY <1>1, ProductNat
<1> HIDE DEF n
<1>3. n \div 100 \in Nat /\ (n \div 100) * 100 <= n
  BY <1>2, NatQuotient
<1> QED
  BY <1>3 DEF Book!Margin, n

\* The three sums are over whole numbers.
LEMMA SummandsAreWhole ==
  ASSUME RecordTypes
  PROVE  /\ \A u \in Assets : Book!Secured[u] \in Nat /\ Book!Booked[u] \in Int /\ Book!Gained[u] \in Int
         /\ Book!SumFunction(Book!Secured) \in Nat /\ Book!SumFunction(Book!Booked) \in Int /\ Book!SumFunction(Book!Gained) \in Int
<1>1. ASSUME NEW u \in Assets
      PROVE  Book!Secured[u] \in Nat /\ Book!Booked[u] \in Int /\ Book!Gained[u] \in Int
  <2>1. holdings[u] \in Holding /\ gains[u] \in Gain
    BY DEF RecordTypes
  <2>2. /\ holdings[u].long * holdings[u].long_cost_basis \in Nat
        /\ holdings[u].short * holdings[u].short_cost_basis \in Nat
        /\ holdings[u].short_margin_used \in Nat
    BY <2>1, ProductNat DEF Holding
  <2>3. gains[u].long \in Int /\ gains[u].short \in Int
    BY <2>1 DEF Gain
  <2> QED
    BY <2>2, <2>3 DEF Book!Secured, Book!Booked, Book!Gained
<1>2. DOMAIN Book!Secured = Assets /\ DOMAIN Book!Booked = Assets /\ DOMAIN Book!Gained = Assets
  BY DEF Book!Secured, Book!Booked, Book!Gained
<1>3. \A u \in Assets : Book!Secured[u] \in Int
  BY <1>1
<1>4. /\ SumFunctionOnSet(Book!Secured, Assets) \in Nat
      /\ SumFunctionOnSet(Book!Booked, Assets) \in Int /\ SumFunctionOnSet(Book!Gained, Assets) \in Int
  BY <1>1, <1>3, BookConstants, SumType
<1> QED
  BY <1>1, <1>2, <1>4, SumsAreOne

\* One position, one gain and the money change together: what the sums become.
LEMMA OnePositionChanges ==
  ASSUME RecordTypes, RecordTypes', NEW t \in Assets,
         \A u \in Assets \ {t} : holdings'[u] = holdings[u] /\ gains'[u] = gains[u]
  PROVE  /\ Book!SumFunction(Book!Secured)' = Book!SumFunction(Book!Secured) - holdings[t].short_margin_used + holdings'[t].short_margin_used
         /\ Book!SumFunction(Book!Booked)' = Book!SumFunction(Book!Booked) - Book!Booked[t] + Book!Booked'[t]
         /\ Book!SumFunction(Book!Gained)' = Book!SumFunction(Book!Gained) - Book!Gained[t] + Book!Gained'[t]
<1>1. /\ \A u \in Assets : Book!Secured[u] \in Nat /\ Book!Booked[u] \in Int /\ Book!Gained[u] \in Int
      /\ \A u \in Assets : Book!Secured'[u] \in Nat /\ Book!Booked'[u] \in Int /\ Book!Gained'[u] \in Int
  <2>1. \A u \in Assets : Book!Secured[u] \in Nat /\ Book!Booked[u] \in Int /\ Book!Gained[u] \in Int
    BY SummandsAreWhole
  <2>2. (RecordTypes => \A u \in Assets : Book!Secured[u] \in Nat /\ Book!Booked[u] \in Int /\ Book!Gained[u] \in Int)'
    BY SummandsAreWhole, PTL
  <2> QED
    BY <2>1, <2>2
<1>2. \A u \in Assets \ {t} : Book!Secured'[u] = Book!Secured[u] /\ Book!Booked'[u] = Book!Booked[u] /\ Book!Gained'[u] = Book!Gained[u]
  BY DEF Book!Secured, Book!Booked, Book!Gained
<1>3. /\ DOMAIN Book!Secured = Assets /\ DOMAIN Book!Booked = Assets /\ DOMAIN Book!Gained = Assets
      /\ DOMAIN Book!Secured' = Assets /\ DOMAIN Book!Booked' = Assets /\ DOMAIN Book!Gained' = Assets
  BY DEF Book!Secured, Book!Booked, Book!Gained
<1>4. /\ SumFunctionOnSet(Book!Secured', Assets) = SumFunctionOnSet(Book!Secured, Assets) - Book!Secured[t] + Book!Secured'[t]
      /\ SumFunctionOnSet(Book!Booked', Assets) = SumFunctionOnSet(Book!Booked, Assets) - Book!Booked[t] + Book!Booked'[t]
      /\ SumFunctionOnSet(Book!Gained', Assets) = SumFunctionOnSet(Book!Gained, Assets) - Book!Gained[t] + Book!Gained'[t]
  <2> DEFINE s == Book!Secured  b == Book!Booked  g == Book!Gained
             s2 == Book!Secured'  b2 == Book!Booked'  g2 == Book!Gained'
  <2>1. \A u \in Assets : /\ s[u] \in Int /\ b[u] \in Int /\ g[u] \in Int
                          /\ s2[u] \in Int /\ b2[u] \in Int /\ g2[u] \in Int
    BY <1>1
  <2>2. \A u \in Assets \ {t} : s[u] = s2[u] /\ b[u] = b2[u] /\ g[u] = g2[u]
    BY <1>2
  <2> HIDE DEF s, b, g, s2, b2, g2
  <2>3. SumFunctionOnSet(s2, Assets) = SumFunctionOnSet(s, Assets) - s[t] + s2[t]
    BY <2>1, <2>2, BookConstants, SumChange
  <2>4. SumFunctionOnSet(b2, Assets) = SumFunctionOnSet(b, Assets) - b[t] + b2[t]
    BY <2>1, <2>2, BookConstants, SumChange
  <2>5. SumFunctionOnSet(g2, Assets) = SumFunctionOnSet(g, Assets) - g[t] + g2[t]
    BY <2>1, <2>2, BookConstants, SumChange
  <2> QED
    BY <2>3, <2>4, <2>5 DEF s, b, g, s2, b2, g2
<1>5. Book!Secured[t] = holdings[t].short_margin_used /\ Book!Secured'[t] = holdings'[t].short_margin_used
  BY DEF Book!Secured
<1> QED
  BY <1>3, <1>4, <1>5, SumsAreOne

\* What a trade of t leaves alone.
Others(t) == \A u \in Assets \ {t} : holdings'[u] = holdings[u] /\ gains'[u] = gains[u]

\* One position and one gain are replaced.
LEMMA OneRecordChanges ==
  ASSUME RecordTypes, NEW t \in Assets, NEW n \in Holding, NEW g \in Gain,
         holdings' = [holdings EXCEPT ![t] = n], gains' = [gains EXCEPT ![t] = g]
  PROVE  RecordTypes' /\ holdings'[t] = n /\ gains'[t] = g /\ Others(t)
BY DEF RecordTypes, Others

\* The account's margin follows the margin of the position that changes.
LEMMA MarginFollows ==
  ASSUME BookInv, RecordTypes', NEW t \in Assets, Others(t),
         money'.margin_used = money.margin_used - holdings[t].short_margin_used + holdings'[t].short_margin_used,
         holdings'[t].long = 0 => holdings'[t].long_cost_basis = 0,
         holdings'[t].short = 0 => holdings'[t].short_cost_basis = 0 /\ holdings'[t].short_margin_used = 0
  PROVE  money'.margin_used \in Nat /\ Book!MarginMatchesShorts'
<1>1. Book!SumFunction(Book!Secured)' = Book!SumFunction(Book!Secured) - holdings[t].short_margin_used + holdings'[t].short_margin_used
  BY OnePositionChanges DEF BookInv, Others
<1>2. money.margin_used = Book!SumFunction(Book!Secured)
  BY DEF BookInv, Book!MarginMatchesShorts
<1>3. Book!SumFunction(Book!Secured)' \in Nat
  <2>1. (RecordTypes => Book!SumFunction(Book!Secured) \in Nat)'
    BY SummandsAreWhole, PTL
  <2> QED
    BY <2>1
<1>4. money'.margin_used = Book!SumFunction(Book!Secured)'
  BY <1>1, <1>2
<1>5. ASSUME NEW u \in Assets
      PROVE  /\ holdings'[u].long >= 0 /\ holdings'[u].short >= 0 /\ holdings'[u].short_margin_used >= 0
             /\ holdings'[u].long = 0 => holdings'[u].long_cost_basis = 0
             /\ holdings'[u].short = 0 => holdings'[u].short_cost_basis = 0 /\ holdings'[u].short_margin_used = 0
  <2>1. holdings'[u] \in Holding
    BY DEF RecordTypes
  <2>2. CASE u = t
    BY <2>1, <2>2 DEF Holding
  <2>3. CASE u # t
    BY <2>1, <2>3 DEF Holding, BookInv, Book!MarginMatchesShorts, Others
  <2> QED
    BY <2>2, <2>3
<1> QED
  BY <1>3, <1>4, <1>5 DEF Book!MarginMatchesShorts

\* The books follow the position, the gain and the money that change.
LEMMA BooksAdd ==
  ASSUME NEW m \in Int, NEW m2 \in Int, NEW i \in Int, NEW x \in Int, NEW y \in Int,
         NEW a \in Int, NEW a2 \in Int, NEW c \in Int, NEW c2 \in Int,
         m + x = i + y, m2 + a2 - a = m + c2 - c
  PROVE  m2 + (x - a + a2) = i + (y - c + c2)
OBVIOUS

LEMMA BooksFollow ==
  ASSUME BookInv, Book!GainsExplainCash, RecordTypes', money' \in Money, NEW t \in Assets, Others(t),
         money'.cash + money'.margin_used + Book!Booked'[t] - Book!Booked[t]
           = money.cash + money.margin_used + Book!Gained'[t] - Book!Gained[t]
  PROVE  Book!GainsExplainCash'
<1> DEFINE a == Book!Booked[t]
           a2 == Book!Booked'[t]
           c == Book!Gained[t]
           c2 == Book!Gained'[t]
           x == Book!SumFunction(Book!Booked)
           y == Book!SumFunction(Book!Gained)
           x2 == Book!SumFunction(Book!Booked)'
           y2 == Book!SumFunction(Book!Gained)'
<1>1. x2 = x - a + a2 /\ y2 = y - c + c2
  BY OnePositionChanges DEF BookInv, Others
<1>2. a \in Int /\ a2 \in Int /\ c \in Int /\ c2 \in Int
  <2>1. (RecordTypes => \A u \in Assets : Book!Secured[u] \in Nat /\ Book!Booked[u] \in Int /\ Book!Gained[u] \in Int)'
    BY SummandsAreWhole, PTL
  <2>2. RecordTypes => \A u \in Assets : Book!Booked[u] \in Int /\ Book!Gained[u] \in Int
    BY SummandsAreWhole
  <2> QED
    BY <2>1, <2>2 DEF BookInv
<1>3. x \in Int /\ y \in Int
  BY SummandsAreWhole DEF BookInv
<1>4. money.cash + money.margin_used + x = InitialCash + y
  BY DEF Book!GainsExplainCash
<1>5. /\ money.cash \in Int /\ money.margin_used \in Int /\ InitialCash \in Int
      /\ money'.cash \in Int /\ money'.margin_used \in Int
  BY BookConstants DEF BookInv, Money
<1>6. money'.cash + money'.margin_used + a2 - a = money.cash + money.margin_used + c2 - c
  OBVIOUS
<1> DEFINE m == money.cash + money.margin_used
           m2 == money'.cash + money'.margin_used
<1>7. m \in Int /\ m2 \in Int
  BY <1>5
<1>8. m + x = InitialCash + y /\ m2 + a2 - a = m + c2 - c
  BY <1>4, <1>6
<1> HIDE DEF a, a2, c, c2, x, y, x2, y2, m, m2
<1>9. m2 + x2 = InitialCash + y2
  BY <1>1, <1>2, <1>3, <1>5, <1>7, <1>8, BooksAdd
<1> QED
  BY <1>9 DEF Book!GainsExplainCash, x2, y2, m2

LEMMA SmallerOf ==
  ASSUME NEW a \in Nat, NEW b \in Nat
  PROVE  Book!Smaller(a, b) \in Nat /\ Book!Smaller(a, b) <= a /\ Book!Smaller(a, b) <= b
BY DEF Book!Smaller

LEMMA AverageIsNat ==
  ASSUME NEW basis \in Nat, NEW shares \in Nat, NEW price \in Nat, NEW q \in Nat \ {0}
  PROVE  Book!Average(basis, shares, price, q) \in Nat
<1> DEFINE n == basis * shares + price * q
           d == shares + q
<1>1. basis * shares \in Nat /\ price * q \in Nat
  BY ProductNat
<1>2. n \in Nat /\ d \in Nat \ {0}
  BY <1>1
<1> HIDE DEF n, d
<1>3. n \div d \in Nat
  BY <1>2, NatQuotient
<1> QED
  BY <1>3 DEF Book!Average, n, d

\* A record of the position of t, its fields, and the money.
LEMMA RecordFields ==
  ASSUME BookInv, NEW t \in Assets
  PROVE  /\ holdings[t] \in Holding /\ gains[t] \in Gain
         /\ holdings = [holdings EXCEPT ![t] = holdings[t]] /\ gains = [gains EXCEPT ![t] = gains[t]]
         /\ holdings[t].long \in Nat /\ holdings[t].long_cost_basis \in Nat
         /\ holdings[t].short \in Nat /\ holdings[t].short_cost_basis \in Nat
         /\ holdings[t].short_margin_used \in Nat
         /\ gains[t].long \in Int /\ gains[t].short \in Int
         /\ money.cash \in Int /\ money.margin_used \in Nat /\ money.margin_requirement \in Nat
         /\ holdings[t].long = 0 => holdings[t].long_cost_basis = 0
         /\ holdings[t].short = 0 => holdings[t].short_cost_basis = 0 /\ holdings[t].short_margin_used = 0
<1>1. holdings[t] \in Holding /\ gains[t] \in Gain
  BY DEF BookInv, RecordTypes
<1>2. holdings = [holdings EXCEPT ![t] = holdings[t]] /\ gains = [gains EXCEPT ![t] = gains[t]]
  BY DEF BookInv, RecordTypes
<1> QED
  BY <1>1, <1>2 DEF Holding, Gain, BookInv, Money, Book!MarginMatchesShorts

LEMMA BuyStep ==
  ASSUME BookInv, NEW t \in Assets, NEW q \in Nat, NEW price \in Nat \ {0}, Book!Buy(t, q, price)
  PROVE  /\ money' \in Money /\ RecordTypes' /\ Book!MarginMatchesShorts' /\ money'.cash >= 0
         /\ Book!GainsExplainCash /\ ExactAverage(t, price) => Book!GainsExplainCash'
<1> DEFINE h == holdings[t]
           fill == Book!BuyFill(q, price)
           paid == fill * price
           basis == Book!Average(h.long_cost_basis, h.long, price, fill)
           n == [h EXCEPT !.long = h.long + fill, !.long_cost_basis = basis]
<1>1. /\ fill > 0
      /\ money' = [money EXCEPT !.cash = money.cash - paid]
      /\ holdings' = [holdings EXCEPT ![t] = n] /\ gains' = gains
  <2>1. holdings' = [holdings EXCEPT ![t].long = holdings[t].long + fill,
                                     ![t].long_cost_basis = Book!Average(holdings[t].long_cost_basis, holdings[t].long, price, fill)]
    BY DEF Book!Buy
  <2>2. holdings' = [holdings EXCEPT ![t] = n]
    BY <2>1 DEF BookInv, RecordTypes, Holding
  <2> QED
    BY <2>2 DEF Book!Buy
<1>2. /\ h \in Holding /\ h.long \in Nat /\ h.long_cost_basis \in Nat
      /\ money \in Money /\ money.cash \in Int /\ money.margin_used \in Nat
      /\ gains[t] \in Gain /\ gains[t].long \in Int /\ gains[t].short \in Int
      /\ gains' = [gains EXCEPT ![t] = gains[t]]
  BY <1>1, RecordFields DEF BookInv
<1>3. fill \in Nat \ {0} /\ paid \in Nat /\ paid <= money.cash
  <2>1. money.cash > 0
    BY <1>1, <1>2 DEF Book!BuyFill
  <2> DEFINE most == money.cash \div price
  <2>2. most \in Nat /\ most * price <= money.cash
    BY <1>2, <2>1, NatQuotient
  <2>3. fill = Book!Smaller(q, most)
    BY <1>2, <2>1 DEF Book!BuyFill
  <2> HIDE DEF most, fill
  <2>4. fill \in Nat /\ fill <= most
    BY <2>2, <2>3, SmallerOf
  <2>5. fill * price <= most * price
    BY <2>2, <2>4, NatProductLe
  <2>6. fill * price \in Nat /\ most * price \in Nat
    BY <2>2, <2>4, ProductNat
  <2> QED
    BY <1>1, <1>2, <2>2, <2>4, <2>5, <2>6 DEF paid
<1>4. basis \in Nat
  <2> HIDE DEF fill, h
  <2> QED
    BY <1>2, <1>3, AverageIsNat
<1> HIDE DEF fill, paid, basis
<1>5. /\ n \in Holding
      /\ n.long = h.long + fill /\ n.long_cost_basis = basis /\ n.short = h.short
      /\ n.short_cost_basis = h.short_cost_basis /\ n.short_margin_used = h.short_margin_used
  <2>1. h.long + fill \in Nat
    BY <1>2, <1>3
  <2> HIDE DEF h
  <2> QED
    BY <1>2, <1>4, <2>1 DEF Holding
<1> HIDE DEF n
<1>6. RecordTypes' /\ holdings'[t] = n /\ gains'[t] = gains[t] /\ Others(t)
  BY <1>1, <1>2, <1>5, OneRecordChanges DEF BookInv
<1>7. money' \in Money /\ money'.cash = money.cash - paid /\ money'.margin_used = money.margin_used
  BY <1>1, <1>2, <1>3 DEF Money
<1>8. Book!MarginMatchesShorts'
  <2>1. n.long # 0
    BY <1>2, <1>3, <1>5
  <2>2. n.short = 0 => n.short_cost_basis = 0 /\ n.short_margin_used = 0
    BY <1>5, RecordFields
  <2>3. money'.margin_used = money.margin_used - h.short_margin_used + n.short_margin_used
    BY <1>2, <1>5, <1>7, RecordFields
  <2> QED
    BY <1>6, <2>1, <2>2, <2>3, MarginFollows
<1>9. ASSUME Book!GainsExplainCash, ExactAverage(t, price)
      PROVE  Book!GainsExplainCash'
  <2>1. n.long > h.long /\ n.long - h.long = fill
    BY <1>2, <1>3, <1>5
  <2>2. n.long * n.long_cost_basis = h.long * h.long_cost_basis + price * (n.long - h.long)
    BY <1>6, <1>9, <2>1 DEF ExactAverage
  <2>3. price * (n.long - h.long) = paid
    BY <1>3, <2>1 DEF paid
  <2> DEFINE a == h.long * h.long_cost_basis
             b == h.short * h.short_cost_basis
             c == gains[t].long + gains[t].short
  <2>4. a \in Nat /\ b \in Nat /\ c \in Int
    BY <1>2, RecordFields, ProductNat
  <2>5. n.long * n.long_cost_basis = a + paid /\ n.short * n.short_cost_basis = b
    BY <1>5, <2>2, <2>3
  <2>6. Book!Booked[t] = a - b /\ Book!Gained[t] = c /\ Book!Gained'[t] = c /\ Book!Booked'[t] = (a + paid) - b
    BY <1>6, <2>5 DEF Book!Booked, Book!Gained
  <2> HIDE DEF a, b, c
  <2>7. money'.cash + money'.margin_used + Book!Booked'[t] - Book!Booked[t]
          = money.cash + money.margin_used + Book!Gained'[t] - Book!Gained[t]
    BY <1>2, <1>3, <1>7, <2>4, <2>6
  <2> QED
    BY <1>6, <1>7, <1>9, <2>7, BooksFollow
<1> QED
  BY <1>2, <1>3, <1>6, <1>7, <1>8, <1>9

\* The cost of what is left of a position that is closed in part, or as a whole.
LEMMA PartialClose ==
  ASSUME NEW n \in Nat, NEW b \in Nat, NEW fill \in Nat, fill <= n
  PROVE  (n - fill) * (IF fill = n THEN 0 ELSE b) = n * b - fill * b
<1>1. CASE fill = n
  BY <1>1
<1>2. CASE fill # n
  BY <1>2
<1> QED
  BY <1>1, <1>2

LEMMA SellStep ==
  ASSUME BookInv, NEW t \in Assets, NEW q \in Nat, NEW price \in Nat \ {0}, Book!Sell(t, q, price)
  PROVE  /\ money' \in Money /\ RecordTypes' /\ Book!MarginMatchesShorts' /\ money'.cash >= money.cash
         /\ Book!GainsExplainCash => Book!GainsExplainCash'
<1> DEFINE h == holdings[t]
           e == gains[t]
           fill == Book!Smaller(q, h.long)
           paid == fill * price
           won == (price - h.long_cost_basis) * fill
           basis == IF fill = h.long THEN 0 ELSE h.long_cost_basis
           n == [h EXCEPT !.long = h.long - fill, !.long_cost_basis = basis]
           g == [e EXCEPT !.long = e.long + won]
<1>1. /\ fill > 0
      /\ money' = [money EXCEPT !.cash = money.cash + paid]
      /\ holdings' = [holdings EXCEPT ![t] = n] /\ gains' = [gains EXCEPT ![t] = g]
  <2>1. /\ holdings' = [holdings EXCEPT ![t].long = holdings[t].long - fill,
                        ![t].long_cost_basis = IF fill = h.long THEN 0 ELSE holdings[t].long_cost_basis]
        /\ gains' = [gains EXCEPT ![t].long = gains[t].long + (price - h.long_cost_basis) * fill]
    BY DEF Book!Sell
  <2>2. holdings' = [holdings EXCEPT ![t] = n]
    BY <2>1 DEF BookInv, RecordTypes, Holding
  <2>3. gains' = [gains EXCEPT ![t] = g]
    BY <2>1 DEF BookInv, RecordTypes, Gain
  <2> QED
    BY <2>2, <2>3 DEF Book!Sell
<1>2. /\ h \in Holding /\ h.long \in Nat /\ h.long_cost_basis \in Nat
      /\ money \in Money /\ money.cash \in Int /\ money.margin_used \in Nat
      /\ e \in Gain /\ e.long \in Int /\ e.short \in Int
  BY RecordFields DEF BookInv
<1>3. fill \in Nat \ {0} /\ fill <= h.long
  <2> HIDE DEF h
  <2> QED
    BY <1>1, <1>2, SmallerOf
<1> HIDE DEF fill
<1>4. paid \in Nat /\ won \in Int /\ basis \in Nat
  <2> DEFINE d == price - h.long_cost_basis
  <2>1. d \in Int
    BY <1>2
  <2> HIDE DEF d, h
  <2>2. d * fill \in Int
    BY <1>3, <2>1
  <2> QED
    BY <1>2, <1>3, <2>2, ProductNat DEF d
<1>5. won = paid - fill * h.long_cost_basis
  <2> DEFINE b == h.long_cost_basis
  <2>1. b \in Nat
    BY <1>2
  <2> HIDE DEF b
  <2>2. (price - b) * fill = fill * price - fill * b
    BY <1>3, <2>1
  <2> QED
    BY <2>2 DEF b
<1>6. (h.long - fill) * basis = h.long * h.long_cost_basis - fill * h.long_cost_basis
  <2> DEFINE l == h.long
             b == h.long_cost_basis
  <2>1. l \in Nat /\ b \in Nat /\ fill \in Nat /\ fill <= l
    BY <1>2, <1>3
  <2> HIDE DEF l, b
  <2>2. (l - fill) * (IF fill = l THEN 0 ELSE b) = l * b - fill * b
    BY <2>1, PartialClose
  <2> QED
    BY <2>2 DEF l, b
<1>7. fill = h.long => basis = 0
  OBVIOUS
<1> HIDE DEF paid, won, basis
<1>8. /\ n \in Holding
      /\ n.long = h.long - fill /\ n.long_cost_basis = basis /\ n.short = h.short
      /\ n.short_cost_basis = h.short_cost_basis /\ n.short_margin_used = h.short_margin_used
  <2>1. h.long - fill \in Nat
    BY <1>2, <1>3
  <2> HIDE DEF h
  <2> QED
    BY <1>2, <1>4, <2>1 DEF Holding
<1>9. g \in Gain /\ g.long = e.long + won /\ g.short = e.short
  <2>1. e.long + won \in Int
    BY <1>2, <1>4
  <2> HIDE DEF e
  <2> QED
    BY <1>2, <2>1 DEF Gain
<1> HIDE DEF n, g
<1>10. RecordTypes' /\ holdings'[t] = n /\ gains'[t] = g /\ Others(t)
  BY <1>1, <1>8, <1>9, OneRecordChanges DEF BookInv
<1>11. money' \in Money /\ money'.cash = money.cash + paid /\ money'.margin_used = money.margin_used
  BY <1>1, <1>2, <1>4 DEF Money
<1>12. Book!MarginMatchesShorts'
  <2>1. n.long = 0 => n.long_cost_basis = 0
    BY <1>2, <1>3, <1>7, <1>8
  <2>2. n.short = 0 => n.short_cost_basis = 0 /\ n.short_margin_used = 0
    BY <1>8, RecordFields
  <2>3. money'.margin_used = money.margin_used - h.short_margin_used + n.short_margin_used
    BY <1>2, <1>8, <1>11, RecordFields
  <2> QED
    BY <1>10, <2>1, <2>2, <2>3, MarginFollows
<1>13. ASSUME Book!GainsExplainCash
       PROVE  Book!GainsExplainCash'
  <2> DEFINE a == h.long * h.long_cost_basis
             b == h.short * h.short_cost_basis
             c == e.long + e.short
             cost == fill * h.long_cost_basis
  <2>1. a \in Nat /\ b \in Nat /\ c \in Int /\ cost \in Nat
    BY <1>2, <1>3, RecordFields, ProductNat
  <2>2. n.long * n.long_cost_basis = a - cost /\ n.short * n.short_cost_basis = b
    BY <1>6, <1>8
  <2>3. Book!Booked[t] = a - b /\ Book!Gained[t] = c /\ Book!Gained'[t] = (e.long + won) + e.short /\ Book!Booked'[t] = (a - cost) - b
    BY <1>9, <1>10, <2>2 DEF Book!Booked, Book!Gained
  <2>4. (e.long + won) + e.short = c + won
    BY <1>2, <1>4
  <2>5. won = paid - cost
    BY <1>5
  <2> HIDE DEF a, b, c, cost
  <2> DEFINE m == money.cash
             u == money.margin_used
             x == Book!Gained'[t]
  <2>6. m \in Int /\ u \in Int /\ x = c + won /\ paid \in Int /\ won \in Int
    BY <1>2, <1>4, <2>3, <2>4
  <2> HIDE DEF m, u, x
  <2>7. (m + paid) + u + ((a - cost) - b) - (a - b) = m + u + x - c
    BY <2>1, <2>5, <2>6
  <2>8. money'.cash + money'.margin_used + Book!Booked'[t] - Book!Booked[t]
          = money.cash + money.margin_used + Book!Gained'[t] - Book!Gained[t]
    BY <1>11, <2>3, <2>7 DEF m, u, x
  <2> QED
    BY <1>10, <1>11, <1>13, <2>8, BooksFollow
<1> QED
  BY <1>2, <1>4, <1>10, <1>11, <1>12, <1>13

\* The margin of what a short sale fills is covered by the cash that is no margin yet.
LEMMA ShortIsSecured ==
  ASSUME BookInv, NEW q \in Nat, NEW price \in Nat \ {0}
  PROVE  /\ Book!ShortFill(q, price) \in Nat
         /\ Book!Margin(price * Book!ShortFill(q, price)) \in Nat
         /\ Book!Margin(price * Book!ShortFill(q, price)) <=
              IF money.cash >= money.margin_used THEN money.cash - money.margin_used ELSE 0
<1> DEFINE available == IF money.cash >= money.margin_used THEN money.cash - money.margin_used ELSE 0
           fill == Book!ShortFill(q, price)
           percent == money.margin_requirement
           most == (available * 100) \div (price * percent)
<1>1. available \in Nat /\ percent \in Nat /\ money \in Money
  BY DEF BookInv, Money
<1>2. fill = IF Book!Margin(price * q) <= available THEN q ELSE most
  BY DEF Book!ShortFill
<1>3. CASE Book!Margin(price * q) <= available
  <2>1. price * q \in Nat
    BY ProductNat
  <2> QED
    BY <1>1, <1>2, <1>3, <2>1, MarginIsNat
<1>4. CASE ~ (Book!Margin(price * q) <= available)
  <2>1. price * q \in Nat /\ Book!Margin(price * q) \in Nat /\ Book!Margin(price * q) * 100 <= (price * q) * percent
    BY <1>1, ProductNat, MarginIsNat
  <2>2. percent # 0
    <3>1. SUFFICES ASSUME percent = 0 PROVE FALSE
      OBVIOUS
    <3>2. (price * q) * percent = 0
      BY <2>1, <3>1
    <3> HIDE DEF percent, available
    <3>3. Book!Margin(price * q) = 0
      BY <2>1, <3>2
    <3> QED
      BY <1>1, <1>4, <3>3
  <2> DEFINE unit == price * percent
             n == available * 100
  <2>3. unit \in Nat \ {0} /\ n \in Nat
    <3> HIDE DEF percent, available
    <3> QED
      BY <1>1, <2>2, ProductNat
  <2>4. most \in Nat /\ most * unit <= n
    <3> HIDE DEF percent, available, unit, n
    <3>1. n \div unit \in Nat /\ (n \div unit) * unit <= n
      BY <2>3, NatQuotient
    <3> QED
      BY <3>1 DEF unit, n
  <2>5. fill = most
    BY <1>2, <1>4
  <2> DEFINE v == price * most
  <2>6. v \in Nat /\ v * percent = most * unit
    <3> HIDE DEF percent, available, most
    <3> QED
      BY <1>1, <2>4, ProductNat
  <2>7. Book!Margin(v) \in Nat /\ Book!Margin(v) * 100 <= v * percent
    BY <1>1, <2>6, MarginIsNat
  <2> DEFINE m == Book!Margin(v)
  <2>8. m \in Nat /\ m * 100 <= available * 100
    <3> HIDE DEF percent, available, most, unit, v
    <3>1. m * 100 \in Nat /\ v * percent \in Nat
      BY <1>1, <2>6, <2>7, ProductNat
    <3> HIDE DEF m
    <3> QED
      BY <2>3, <2>4, <2>6, <2>7, <3>1 DEF n, m
  <2>9. m <= available
    <3> HIDE DEF m, available
    <3> QED
      BY <1>1, <2>8
  <2> HIDE DEF fill, most, available
  <2> QED
    BY <2>4, <2>5, <2>8, <2>9 DEF fill, available
<1> QED
  BY <1>3, <1>4

LEMMA ShortStep ==
  ASSUME BookInv, NEW t \in Assets, NEW q \in Nat, NEW price \in Nat \ {0}, Book!Short(t, q, price)
  PROVE  /\ money' \in Money /\ RecordTypes' /\ Book!MarginMatchesShorts'
         /\ money'.cash >= 0 \/ money'.cash >= money.cash
         /\ Book!GainsExplainCash /\ ExactAverage(t, price) => Book!GainsExplainCash'
<1> DEFINE h == holdings[t]
           fill == Book!ShortFill(q, price)
           paid == price * fill
           margin == Book!Margin(price * fill)
           basis == Book!Average(h.short_cost_basis, h.short, price, fill)
           n == [h EXCEPT !.short = h.short + fill, !.short_cost_basis = basis,
                          !.short_margin_used = h.short_margin_used + margin]
<1>1. /\ fill > 0
      /\ money' = [money EXCEPT !.cash = money.cash + paid - margin, !.margin_used = money.margin_used + margin]
      /\ holdings' = [holdings EXCEPT ![t] = n] /\ gains' = gains
  <2>1. holdings' = [holdings EXCEPT ![t].short = holdings[t].short + fill,
                                     ![t].short_cost_basis = Book!Average(holdings[t].short_cost_basis, holdings[t].short, price, fill),
                                     ![t].short_margin_used = holdings[t].short_margin_used + margin]
    BY DEF Book!Short
  <2> HIDE DEF fill, margin
  <2>2. holdings' = [holdings EXCEPT ![t] = n]
    BY <2>1 DEF BookInv, RecordTypes, Holding
  <2> QED
    BY <2>2 DEF Book!Short, fill, margin
<1>2. /\ h \in Holding /\ h.short \in Nat /\ h.short_cost_basis \in Nat /\ h.short_margin_used \in Nat
      /\ money \in Money /\ money.cash \in Int /\ money.margin_used \in Nat
      /\ gains[t] \in Gain /\ gains[t].long \in Int /\ gains[t].short \in Int
      /\ gains' = [gains EXCEPT ![t] = gains[t]]
  BY <1>1, RecordFields DEF BookInv
<1>3. /\ fill \in Nat \ {0} /\ margin \in Nat /\ paid \in Nat
      /\ (money.cash >= money.margin_used /\ margin <= money.cash - money.margin_used) \/ margin = 0
  <2>1. /\ fill \in Nat /\ margin \in Nat
        /\ margin <= IF money.cash >= money.margin_used THEN money.cash - money.margin_used ELSE 0
    BY ShortIsSecured
  <2> HIDE DEF fill, margin
  <2> QED
    BY <1>1, <1>2, <2>1, ProductNat
<1>4. basis \in Nat
  <2> HIDE DEF fill, h
  <2> QED
    BY <1>2, <1>3, AverageIsNat
<1> HIDE DEF fill, basis, margin
<1>5. /\ n \in Holding
      /\ n.short = h.short + fill /\ n.short_cost_basis = basis /\ n.long = h.long
      /\ n.long_cost_basis = h.long_cost_basis /\ n.short_margin_used = h.short_margin_used + margin
  <2>1. h.short + fill \in Nat /\ h.short_margin_used + margin \in Nat
    BY <1>2, <1>3
  <2> HIDE DEF h
  <2> QED
    BY <1>2, <1>4, <2>1 DEF Holding
<1> HIDE DEF n
<1>6. RecordTypes' /\ holdings'[t] = n /\ gains'[t] = gains[t] /\ Others(t)
  BY <1>1, <1>2, <1>5, OneRecordChanges DEF BookInv
<1>7. /\ money' \in Money /\ money'.cash = money.cash + paid - margin
      /\ money'.margin_used = money.margin_used + margin
  <2> HIDE DEF paid
  <2>1. money.cash + paid - margin \in Int /\ money.margin_used + margin \in Nat
    BY <1>2, <1>3
  <2> QED
    BY <1>1, <1>2, <2>1 DEF Money
<1>8. Book!MarginMatchesShorts'
  <2>1. n.short # 0
    BY <1>2, <1>3, <1>5
  <2>2. n.long = 0 => n.long_cost_basis = 0
    BY <1>5, RecordFields
  <2>3. money'.margin_used = money.margin_used - h.short_margin_used + n.short_margin_used
    BY <1>2, <1>3, <1>5, <1>7
  <2> QED
    BY <1>6, <2>1, <2>2, <2>3, MarginFollows
<1>9. ASSUME Book!GainsExplainCash, ExactAverage(t, price)
      PROVE  Book!GainsExplainCash'
  <2>1. n.short > h.short /\ n.short - h.short = fill
    BY <1>2, <1>3, <1>5
  <2>2. n.short * n.short_cost_basis = h.short * h.short_cost_basis + price * (n.short - h.short)
    BY <1>6, <1>9, <2>1 DEF ExactAverage
  <2>3. price * (n.short - h.short) = paid
    BY <2>1
  <2> DEFINE a == h.long * h.long_cost_basis
             b == h.short * h.short_cost_basis
             c == gains[t].long + gains[t].short
  <2>4. a \in Nat /\ b \in Nat /\ c \in Int
    BY <1>2, RecordFields, ProductNat
  <2>5. n.short * n.short_cost_basis = b + paid /\ n.long * n.long_cost_basis = a
    BY <1>5, <2>2, <2>3
  <2>6. Book!Booked[t] = a - b /\ Book!Gained[t] = c /\ Book!Gained'[t] = c /\ Book!Booked'[t] = a - (b + paid)
    BY <1>6, <2>5 DEF Book!Booked, Book!Gained
  <2> HIDE DEF a, b, c, paid
  <2>7. money'.cash + money'.margin_used + Book!Booked'[t] - Book!Booked[t]
          = money.cash + money.margin_used + Book!Gained'[t] - Book!Gained[t]
    BY <1>2, <1>3, <1>7, <2>4, <2>6
  <2> QED
    BY <1>6, <1>7, <1>9, <2>7, BooksFollow
<1>10. money'.cash >= 0 \/ money'.cash >= money.cash
  <2> HIDE DEF paid
  <2> QED
    BY <1>2, <1>3, <1>7
<1> QED
  BY <1>6, <1>7, <1>8, <1>9, <1>10

\* What a cover sets free is at most the position's margin, and all of it when the position is closed.
LEMMA ReleasedIsShare ==
  ASSUME NEW h \in Holding, NEW fill \in Nat \ {0}, fill <= h.short
  PROVE  /\ Book!Released(h, fill) \in Nat /\ Book!Released(h, fill) <= h.short_margin_used
         /\ fill = h.short => Book!Released(h, fill) = h.short_margin_used
<1> DEFINE m == h.short_margin_used
           s == h.short
           n == m * fill
           r == n \div s
<1>1. m \in Nat /\ s \in Nat \ {0} /\ fill <= s
  BY DEF Holding
<1> HIDE DEF m, s
<1>2. n \in Nat /\ n <= m * s
  <2>1. fill * m <= s * m
    BY <1>1, NatProductLe
  <2>2. fill * m = m * fill /\ s * m = m * s
    BY <1>1
  <2> QED
    BY <1>1, <2>1, <2>2, ProductNat
<1>3. fill = s => n = m * s
  OBVIOUS
<1> HIDE DEF n
<1>4. r \in Nat /\ r * s <= n /\ n < (r + 1) * s
  BY <1>1, <1>2
<1> HIDE DEF r
<1>5. r <= m
  <2>1. SUFFICES ASSUME m + 1 <= r PROVE FALSE
    BY <1>1, <1>4
  <2>2. (m + 1) * s <= r * s
    BY <1>1, <1>4, <2>1, NatProductLe
  <2>3. (m + 1) * s = m * s + s /\ m * s \in Nat /\ r * s \in Nat /\ (m + 1) * s \in Nat
    BY <1>1, <1>4, ProductNat
  <2> QED
    BY <1>1, <1>2, <1>4, <2>2, <2>3
<1>6. fill = s => r = m
  <2>1. SUFFICES ASSUME fill = s, r + 1 <= m PROVE FALSE
    BY <1>1, <1>4, <1>5
  <2>2. (r + 1) * s <= m * s
    BY <1>1, <1>4, <2>1, NatProductLe
  <2>3. m * s \in Nat /\ (r + 1) * s \in Nat
    BY <1>1, <1>4, ProductNat
  <2> QED
    BY <1>2, <1>3, <1>4, <2>1, <2>2, <2>3
<1>7. Book!Released(h, fill) = r
  BY DEF Book!Released, r, n, m, s
<1> QED
  BY <1>4, <1>5, <1>6, <1>7 DEF m, s

LEMMA CoverStep ==
  ASSUME BookInv, NEW t \in Assets, NEW q \in Nat, NEW price \in Nat \ {0}, Book!Cover(t, q, price)
  PROVE  /\ money' \in Money /\ RecordTypes' /\ Book!MarginMatchesShorts'
         /\ holdings'[t].short < holdings[t].short
         /\ Book!GainsExplainCash => Book!GainsExplainCash'
<1> DEFINE h == holdings[t]
           e == gains[t]
           fill == Book!Smaller(q, h.short)
           release == Book!Released(h, fill)
           paid == fill * price
           won == (h.short_cost_basis - price) * fill
           basis == IF fill = h.short THEN 0 ELSE h.short_cost_basis
           left == IF fill = h.short THEN 0 ELSE h.short_margin_used - release
           n == [h EXCEPT !.short = h.short - fill, !.short_cost_basis = basis, !.short_margin_used = left]
           g == [e EXCEPT !.short = e.short + won]
<1>1. /\ fill > 0
      /\ money' = [money EXCEPT !.cash = money.cash + release - paid, !.margin_used = money.margin_used - release]
      /\ holdings' = [holdings EXCEPT ![t] = n] /\ gains' = [gains EXCEPT ![t] = g]
  <2>1. /\ holdings' = [holdings EXCEPT ![t].short = holdings[t].short - fill,
                        ![t].short_cost_basis = IF fill = h.short THEN 0 ELSE holdings[t].short_cost_basis,
                        ![t].short_margin_used = IF fill = h.short THEN 0 ELSE holdings[t].short_margin_used - release]
        /\ gains' = [gains EXCEPT ![t].short = gains[t].short + (h.short_cost_basis - price) * fill]
    BY DEF Book!Cover
  <2> HIDE DEF fill, release
  <2>2. holdings' = [holdings EXCEPT ![t] = n]
    BY <2>1 DEF BookInv, RecordTypes, Holding
  <2>3. gains' = [gains EXCEPT ![t] = g]
    BY <2>1 DEF BookInv, RecordTypes, Gain
  <2> QED
    BY <2>2, <2>3 DEF Book!Cover, fill, release
<1>2. /\ h \in Holding /\ h.short \in Nat /\ h.short_cost_basis \in Nat /\ h.short_margin_used \in Nat
      /\ money \in Money /\ money.cash \in Int /\ money.margin_used \in Nat
      /\ e \in Gain /\ e.long \in Int /\ e.short \in Int
  BY RecordFields DEF BookInv
<1>3. fill \in Nat \ {0} /\ fill <= h.short
  <2> HIDE DEF h
  <2> QED
    BY <1>1, <1>2, SmallerOf
<1> HIDE DEF fill
<1>4. /\ release \in Nat /\ release <= h.short_margin_used
      /\ fill = h.short => release = h.short_margin_used
  <2> HIDE DEF h
  <2> QED
    BY <1>2, <1>3, ReleasedIsShare
<1> HIDE DEF release
<1>5. left \in Nat /\ left = h.short_margin_used - release
  BY <1>2, <1>4
<1>6. paid \in Nat /\ won \in Int /\ basis \in Nat
  <2> DEFINE d == h.short_cost_basis - price
  <2>1. d \in Int
    BY <1>2
  <2> HIDE DEF d, h
  <2>2. d * fill \in Int
    BY <1>3, <2>1
  <2> QED
    BY <1>2, <1>3, <2>2, ProductNat DEF d
<1>7. won = fill * h.short_cost_basis - paid
  <2> DEFINE b == h.short_cost_basis
  <2>1. b \in Nat
    BY <1>2
  <2> HIDE DEF b
  <2>2. (b - price) * fill = fill * b - fill * price
    BY <1>3, <2>1
  <2> QED
    BY <2>2 DEF b
<1>8. (h.short - fill) * basis = h.short * h.short_cost_basis - fill * h.short_cost_basis
  <2> DEFINE l == h.short
             b == h.short_cost_basis
  <2>1. l \in Nat /\ b \in Nat /\ fill \in Nat /\ fill <= l
    BY <1>2, <1>3
  <2> HIDE DEF l, b
  <2>2. (l - fill) * (IF fill = l THEN 0 ELSE b) = l * b - fill * b
    BY <2>1, PartialClose
  <2> QED
    BY <2>2 DEF l, b
<1>9. fill = h.short => basis = 0 /\ left = 0
  OBVIOUS
<1> HIDE DEF paid, won, basis, left
<1>10. /\ n \in Holding
       /\ n.short = h.short - fill /\ n.short_cost_basis = basis /\ n.long = h.long
       /\ n.long_cost_basis = h.long_cost_basis /\ n.short_margin_used = left
  <2>1. h.short - fill \in Nat
    BY <1>2, <1>3
  <2> HIDE DEF h
  <2> QED
    BY <1>2, <1>5, <1>6, <2>1 DEF Holding
<1>11. g \in Gain /\ g.short = e.short + won /\ g.long = e.long
  <2>1. e.short + won \in Int
    BY <1>2, <1>6
  <2> HIDE DEF e
  <2> QED
    BY <1>2, <2>1 DEF Gain
<1> HIDE DEF n, g
<1>12. RecordTypes' /\ holdings'[t] = n /\ gains'[t] = g /\ Others(t)
  BY <1>1, <1>10, <1>11, OneRecordChanges DEF BookInv
<1>13. /\ money'.cash = money.cash + release - paid /\ money'.margin_used = money.margin_used - release
       /\ money'.cash \in Int
       /\ money' = [money EXCEPT !.cash = money'.cash, !.margin_used = money'.margin_used]
  BY <1>1, <1>2, <1>4, <1>6 DEF Money
<1>14. money'.margin_used \in Nat /\ Book!MarginMatchesShorts'
  <2>1. n.short = 0 => n.short_cost_basis = 0 /\ n.short_margin_used = 0
    BY <1>2, <1>3, <1>9, <1>10
  <2>2. n.long = 0 => n.long_cost_basis = 0
    BY <1>10, RecordFields
  <2>3. money'.margin_used = money.margin_used - h.short_margin_used + n.short_margin_used
    BY <1>2, <1>4, <1>5, <1>10, <1>13
  <2> QED
    BY <1>12, <2>1, <2>2, <2>3, MarginFollows
<1>15. money' \in Money
  BY <1>2, <1>13, <1>14 DEF Money
<1>16. ASSUME Book!GainsExplainCash
       PROVE  Book!GainsExplainCash'
  <2> DEFINE a == h.long * h.long_cost_basis
             b == h.short * h.short_cost_basis
             c == e.long + e.short
             cost == fill * h.short_cost_basis
  <2>1. a \in Nat /\ b \in Nat /\ c \in Int /\ cost \in Nat
    BY <1>2, <1>3, RecordFields, ProductNat
  <2>2. n.short * n.short_cost_basis = b - cost /\ n.long * n.long_cost_basis = a
    BY <1>8, <1>10
  <2>3. Book!Booked[t] = a - b /\ Book!Gained[t] = c /\ Book!Gained'[t] = e.long + (e.short + won) /\ Book!Booked'[t] = a - (b - cost)
    BY <1>11, <1>12, <2>2 DEF Book!Booked, Book!Gained
  <2>4. e.long + (e.short + won) = c + won
    BY <1>2, <1>6
  <2>5. won = cost - paid
    BY <1>7
  <2> HIDE DEF a, b, c, cost
  <2>6. money'.cash + money'.margin_used + Book!Booked'[t] - Book!Booked[t]
          = money.cash + money.margin_used + Book!Gained'[t] - Book!Gained[t]
    BY <1>2, <1>4, <1>6, <1>13, <2>1, <2>3, <2>4, <2>5
  <2> QED
    BY <1>12, <1>15, <1>16, <2>6, BooksFollow
<1>17. holdings'[t].short < h.short
  BY <1>2, <1>3, <1>10, <1>12
<1> QED
  BY <1>12, <1>14, <1>15, <1>16, <1>17

LEMMA NextDayKeeps ==
  ASSUME BookInv, Book!NextDay
  PROVE  BookInv' /\ (Book!GainsExplainCash => Book!GainsExplainCash')
<1>1. /\ UNCHANGED <<money, holdings, gains>>
      /\ \/ day' = [day EXCEPT !.n = day.n + 1]
         \/ \E closes \in [Assets -> Closes] : day' = [n |-> day.n + 1, closes |-> closes, todo |-> AssetOrder]
  BY DEF Book!NextDay
<1>2. DayTypes'
  <2>1. day \in Day /\ (day.todo # <<>> => \A t \in Assets : day.closes[t] # 0)
    BY DEF BookInv, DayTypes
  <2>2. day.n \in Int /\ day.n + 1 \in Int
    BY <2>1 DEF Day
  <2>3. CASE day' = [day EXCEPT !.n = day.n + 1]
    <3>1. day' \in Day /\ day'.todo = day.todo /\ day'.closes = day.closes
      BY <2>1, <2>2, <2>3 DEF Day
    <3> QED
      BY <2>1, <3>1 DEF DayTypes
  <2>4. ASSUME NEW closes \in [Assets -> Closes],
               day' = [n |-> day.n + 1, closes |-> closes, todo |-> AssetOrder]
        PROVE  DayTypes'
    <3>1. closes \in [Assets -> Nat] /\ \A t \in Assets : closes[t] # 0
      BY BookConstants
    <3> QED
      BY <2>2, <2>4, <3>1, BookConstants DEF DayTypes, Day
  <2> QED
    BY <1>1, <2>3, <2>4
<1> QED
  BY <1>1, <1>2
     DEF BookInv, RecordTypes, Book!MarginMatchesShorts, Book!Secured, Book!GainsExplainCash, Book!Booked, Book!Gained

LEMMA TradeKeeps ==
  ASSUME BookInv, Book!Trade
  PROVE  /\ BookInv'
         /\ Book!GainsExplainCash /\ ExactAverages => Book!GainsExplainCash'
         /\ money'.cash < money.cash /\ money'.cash < 0 =>
              \E t \in Assets : holdings'[t].short < holdings[t].short
<1> DEFINE t == Head(day.todo)
           price == day.closes[t]
<1>1. day \in Day /\ day.todo # <<>> /\ (\A u \in Assets : day.closes[u] # 0) /\ day' = [day EXCEPT !.todo = Tail(day.todo)]
  BY DEF Book!Trade, BookInv, DayTypes
<1>2. t \in Assets /\ Tail(day.todo) \in Seq(Assets)
  <2>1. day.todo \in Seq(Assets)
    BY <1>1 DEF Day
  <2> QED
    BY <1>1, <2>1
<1>3. price \in Nat \ {0}
  BY <1>1, <1>2 DEF Day
<1>4. DayTypes'
  <2>1. day' \in Day /\ day'.closes = day.closes
    BY <1>1, <1>2 DEF Day
  <2> QED
    BY <1>1, <2>1 DEF DayTypes
<1>5. ExactAverages => ExactAverage(t, price)
  BY <1>2 DEF ExactAverages
<1>6. money.cash \in Int
  BY DEF BookInv, Money
<1>7. PICK q \in Nat : Book!Buy(t, q, price) \/ Book!Sell(t, q, price) \/ Book!Short(t, q, price) \/ Book!Cover(t, q, price)
                       \/ UNCHANGED <<money, holdings, gains>>
  <2>1. 1..MaxQuantity \subseteq Nat
    BY BookConstants
  <2> QED
    BY <2>1 DEF Book!Trade
<1> HIDE DEF t, price
<1>8. money' \in Money => money'.cash \in Int
  BY DEF Money
<1>9. CASE Book!Buy(t, q, price)
  <2>1. /\ money' \in Money /\ RecordTypes' /\ Book!MarginMatchesShorts' /\ money'.cash >= 0
        /\ Book!GainsExplainCash /\ ExactAverage(t, price) => Book!GainsExplainCash'
    BY <1>2, <1>3, <1>9, BuyStep
  <2> QED
    BY <1>4, <1>5, <1>6, <1>8, <2>1 DEF BookInv
<1>10. CASE Book!Sell(t, q, price)
  <2>1. /\ money' \in Money /\ RecordTypes' /\ Book!MarginMatchesShorts' /\ money'.cash >= money.cash
        /\ Book!GainsExplainCash => Book!GainsExplainCash'
    BY <1>2, <1>3, <1>10, SellStep
  <2> QED
    BY <1>4, <1>6, <1>8, <2>1 DEF BookInv
<1>11. CASE Book!Short(t, q, price)
  <2>1. /\ money' \in Money /\ RecordTypes' /\ Book!MarginMatchesShorts'
        /\ money'.cash >= 0 \/ money'.cash >= money.cash
        /\ Book!GainsExplainCash /\ ExactAverage(t, price) => Book!GainsExplainCash'
    BY <1>2, <1>3, <1>11, ShortStep
  <2> QED
    BY <1>4, <1>5, <1>6, <1>8, <2>1 DEF BookInv
<1>12. CASE Book!Cover(t, q, price)
  <2>1. /\ money' \in Money /\ RecordTypes' /\ Book!MarginMatchesShorts'
        /\ holdings'[t].short < holdings[t].short
        /\ Book!GainsExplainCash => Book!GainsExplainCash'
    BY <1>2, <1>3, <1>12, CoverStep
  <2> QED
    BY <1>2, <1>4, <2>1 DEF BookInv
<1>13. CASE UNCHANGED <<money, holdings, gains>>
  <2>1. BookInv' /\ (Book!GainsExplainCash => Book!GainsExplainCash')
    BY <1>4, <1>13 DEF BookInv, RecordTypes, Book!MarginMatchesShorts, Book!Secured, Book!GainsExplainCash, Book!Booked, Book!Gained
  <2>2. money'.cash = money.cash
    BY <1>13
  <2> QED
    BY <1>6, <2>1, <2>2
<1> QED
  BY <1>7, <1>9, <1>10, <1>11, <1>12, <1>13

LEMMA BookStarts ==
  ASSUME Book!BookInit
  PROVE  BookInv /\ Book!GainsExplainCash
<1>1. PICK percent \in MarginRequirements :
        money = [cash |-> InitialCash, margin_used |-> 0, margin_requirement |-> percent]
  BY DEF Book!BookInit
<1>2. /\ holdings = [t \in Assets |-> Book!Flat] /\ gains = [t \in Assets |-> [long |-> 0, short |-> 0]]
      /\ day = [n |-> 0, closes |-> [t \in Assets |-> 0], todo |-> <<>>]
  BY DEF Book!BookInit
<1>3. money \in Money /\ money.cash = InitialCash /\ money.margin_used = 0 /\ InitialCash \in Nat
  BY <1>1, BookConstants DEF Money
<1>4. RecordTypes
  BY <1>2 DEF RecordTypes, Book!Flat, Holding, Gain
<1>5. DayTypes
  <2>1. [t \in Assets |-> 0] \in [Assets -> Nat]
    OBVIOUS
  <2> QED
    BY <1>2, <2>1 DEF DayTypes, Day
<1>6. \A t \in Assets : Book!Secured[t] = 0 /\ Book!Booked[t] = 0 /\ Book!Gained[t] = 0
  BY <1>2 DEF Book!Secured, Book!Booked, Book!Gained, Book!Flat
<1>7. DOMAIN Book!Secured = Assets /\ DOMAIN Book!Booked = Assets /\ DOMAIN Book!Gained = Assets
  BY DEF Book!Secured, Book!Booked, Book!Gained
<1>8. Book!SumFunction(Book!Secured) = 0 /\ Book!SumFunction(Book!Booked) = 0 /\ Book!SumFunction(Book!Gained) = 0
  BY <1>6, <1>7, BookConstants, SumZero, SumsAreOne
<1>9. Book!MarginMatchesShorts
  BY <1>2, <1>3, <1>8 DEF Book!MarginMatchesShorts, Book!Flat
<1> QED
  BY <1>3, <1>4, <1>5, <1>8, <1>9 DEF BookInv, Book!GainsExplainCash

\* One step of the agents' backtest.
LEMMA BookKeeps ==
  ASSUME BookInv, [Book!BookNext]_(Book!bookVars)
  PROVE  /\ BookInv'
         /\ Book!GainsExplainCash /\ ExactAverages => Book!GainsExplainCash'
         /\ money'.cash < money.cash /\ money'.cash < 0 =>
              \E t \in Assets : holdings'[t].short < holdings[t].short
<1>1. CASE Book!Trade
  BY <1>1, TradeKeeps
<1>2. ASSUME money' = money
      PROVE  ~ (money'.cash < money.cash)
  <2>1. money.cash \in Int
    BY DEF BookInv, Money
  <2> QED
    BY <1>2, <2>1
<1>3. CASE Book!NextDay
  <2>1. money' = money
    BY <1>3 DEF Book!NextDay
  <2> QED
    BY <1>2, <1>3, <2>1, NextDayKeeps
<1>4. CASE UNCHANGED Book!bookVars
  <2>1. UNCHANGED <<money, holdings, gains, day>>
    BY <1>4 DEF Book!bookVars
  <2>2. BookInv' /\ (Book!GainsExplainCash => Book!GainsExplainCash')
    BY <2>1 DEF BookInv, RecordTypes, DayTypes, Book!MarginMatchesShorts, Book!Secured, Book!GainsExplainCash, Book!Booked, Book!Gained
  <2> QED
    BY <1>2, <2>1, <2>2
<1> QED
  BY <1>1, <1>3, <1>4 DEF Book!BookNext

-----------------------------------------------------------------------------
\* The chat of a lab strategy (LabStrategies).

ChatMessage == [role : Lab!Roles, patch : Drafts \cup {NoValue}, accepted : BOOLEAN, base : Nat, answers : Nat]
ChatRequest == [kind : Lab!Kinds \cup {NoValue}, version : Nat, spec : Drafts \cup {NoValue}, base : Nat, msg : Nat,
                pc : {"new", "update", "log", "mark", "post", "prompt", "model", "run", "done"}]

ChatTypes ==
    /\ strategy \in [alive : BOOLEAN, spec : Drafts, version : Nat \ {0}]
    /\ chat \in Seq(ChatMessage) /\ \A i \in DOMAIN chat : chat[i].answers <= i
    /\ backtests \subseteq Drafts
    /\ requests \in [Requests -> ChatRequest]
    /\ edits \in Seq(Drafts) /\ overlapped \in BOOLEAN
    /\ ~strategy.alive => chat = <<>> /\ backtests = {}

\* What a request q that is on its way has done: its change is among the edits, its message in the chat, and
\* what it asks the model is not older than what the chat told before.
Underway(q, alive, told, made) ==
    /\ q.pc = "update" \/ q.pc = "run" => q.spec \in Drafts
    /\ q.pc = "log" \/ q.pc = "mark" => q.base \in DOMAIN made /\ made[q.base] = q.spec
    /\ alive /\ q.kind = "apply" /\ (q.pc = "update" \/ q.pc = "mark") =>
         q.msg \in DOMAIN told /\ told[q.msg].patch = q.spec
    /\ alive /\ q.kind = "chat" /\ (q.pc = "prompt" \/ q.pc = "model") => q.msg \in DOMAIN told
    /\ alive /\ q.kind = "chat" /\ q.pc = "model" =>
         \A e \in DOMAIN told : told[e].role = "user_manual_edit" /\ e < q.msg => told[e].base <= q.base

AllUnderway == \A r \in Requests : Underway(requests[r], strategy.alive, chat, edits)

\* An edit is told under its number.
NumbersAreEdits == \A e \in DOMAIN chat : chat[e].role = "user_manual_edit" => chat[e].base <= Len(edits)

\* Until changes overlap there is one at a time, and it knows the version it changes.
OneChange ==
    ~overlapped => /\ \A r, s \in Lab!Changing : r = s
                   /\ \A r \in Lab!Changing : requests[r].version = strategy.version
                   /\ strategy.version = 1 + Len(edits)

ChatInv ==
    /\ ChatTypes /\ AllUnderway
    /\ NumbersAreEdits /\ OneChange /\ Lab!AcceptedWasApplied /\ Lab!ChangesAreTold /\ Lab!ProposalsKnowEdits

LEMMA SpecsAreNot == FirstDraft \in Drafts /\ NoValue \notin Drafts
BY StrategiesAssumption DEF Lab!LabStrategiesAssumption

LEMMA Appended ==
  ASSUME NEW S, NEW s \in Seq(S), NEW e \in S
  PROVE  /\ Append(s, e) \in Seq(S) /\ Len(Append(s, e)) = Len(s) + 1 /\ Len(s) \in Nat
         /\ DOMAIN s = 1..Len(s) /\ DOMAIN Append(s, e) = 1..(Len(s) + 1)
         /\ \A i \in DOMAIN s : Append(s, e)[i] = s[i]
         /\ Append(s, e)[Len(s) + 1] = e
OBVIOUS

LEMMA MessageFields ==
  ASSUME NEW c \in Seq(ChatMessage), NEW i \in DOMAIN c
  PROVE  /\ c[i] \in ChatMessage /\ i \in Nat /\ i >= 1 /\ i <= Len(c)
         /\ c[i].base \in Nat /\ c[i].answers \in Nat /\ c[i].patch \in Drafts \cup {NoValue}
<1>1. c[i] \in ChatMessage /\ i \in Nat /\ i >= 1 /\ i <= Len(c)
  OBVIOUS
<1> QED
  BY <1>1 DEF ChatMessage

LEMMA ChatStarts ==
  ASSUME Lab!Init
  PROVE  ChatInv
<1>1. /\ strategy = [alive |-> TRUE, spec |-> FirstDraft, version |-> 1]
      /\ chat = <<>> /\ backtests = {} /\ edits = <<>> /\ overlapped = FALSE
      /\ requests = [r \in Requests |-> Lab!NoRequest]
  BY DEF Lab!Init
<1>2. DOMAIN chat = {} /\ DOMAIN edits = {} /\ Len(edits) = 0
  BY <1>1
<1>3. Lab!NoRequest \in ChatRequest /\ Lab!NoRequest.pc = "new"
  BY DEF Lab!NoRequest, ChatRequest
<1>4. ChatTypes
  <2>1. requests \in [Requests -> ChatRequest]
    BY <1>1, <1>3
  <2>2. strategy \in [alive : BOOLEAN, spec : Drafts, version : Nat \ {0}] /\ strategy.alive
    BY <1>1, SpecsAreNot
  <2>3. chat \in Seq(ChatMessage) /\ edits \in Seq(Drafts)
    BY <1>1
  <2> QED
    BY <1>1, <1>2, <2>1, <2>2, <2>3 DEF ChatTypes
<1>5. AllUnderway
  BY <1>1, <1>3 DEF AllUnderway, Underway
<1>6. Lab!Changing = {}
  BY <1>1, <1>3 DEF Lab!Changing
<1>7. OneChange
  BY <1>1, <1>2, <1>6 DEF OneChange
<1> QED
  BY <1>2, <1>4, <1>5, <1>7 DEF ChatInv, NumbersAreEdits, Lab!AcceptedWasApplied, Lab!ChangesAreTold, Lab!ProposalsKnowEdits

\* A request r becomes q; the chat, the edits and what exists stay.
LEMMA OnlyRequests ==
  ASSUME ChatInv, NEW r \in Requests, NEW q \in ChatRequest,
         requests' = [requests EXCEPT ![r] = q], Underway(q, strategy.alive, chat, edits), overlapped' \in BOOLEAN,
         UNCHANGED <<strategy, chat, edits>>, backtests' \subseteq Drafts, ~strategy.alive => backtests' = {},
         ~overlapped' => ~overlapped /\ (q.pc = "update" => Lab!Changing = {} /\ q.version = strategy.version),
         strategy.alive => requests[r].pc # "log" /\ requests[r].pc # "mark"
  PROVE  ChatInv'
<1>1. requests \in [Requests -> ChatRequest] /\ requests' \in [Requests -> ChatRequest]
      /\ \A s \in Requests : requests'[s] = IF s = r THEN q ELSE requests[s]
  BY DEF ChatInv, ChatTypes
<1>2. ChatTypes'
  BY <1>1 DEF ChatInv, ChatTypes
<1>3. AllUnderway'
  BY <1>1 DEF ChatInv, AllUnderway
<1>4. OneChange'
  <2>1. SUFFICES ASSUME ~overlapped'
        PROVE  /\ \A s, u \in Lab!Changing' : s = u
               /\ \A s \in Lab!Changing' : requests'[s].version = strategy.version
               /\ strategy.version = 1 + Len(edits)
    BY DEF OneChange
  <2>2. /\ \A s, u \in Lab!Changing : s = u
        /\ \A s \in Lab!Changing : requests[s].version = strategy.version
        /\ strategy.version = 1 + Len(edits)
    BY <2>1 DEF ChatInv, OneChange
  <2>3. CASE q.pc = "update"
    BY <1>1, <2>1, <2>2, <2>3 DEF Lab!Changing
  <2>4. CASE q.pc # "update"
    BY <1>1, <2>2, <2>4 DEF Lab!Changing
  <2> QED
    BY <2>3, <2>4
<1>5. Lab!ChangesAreTold'
  <2>1. SUFFICES ASSUME strategy.alive, NEW k \in DOMAIN edits
        PROVE  \/ \E i \in DOMAIN chat : chat[i].role = "user_manual_edit" /\ chat[i].base = k
               \/ \E i \in DOMAIN chat : chat[i].accepted /\ chat[i].patch = edits[k]
               \/ \E s \in Requests : requests'[s].pc \in {"log", "mark"} /\ requests'[s].base = k
    BY DEF Lab!ChangesAreTold
  <2>2. \/ \E i \in DOMAIN chat : chat[i].role = "user_manual_edit" /\ chat[i].base = k
        \/ \E i \in DOMAIN chat : chat[i].accepted /\ chat[i].patch = edits[k]
        \/ \E s \in Requests \ {r} : requests[s].pc \in {"log", "mark"} /\ requests[s].base = k
    BY <2>1 DEF ChatInv, Lab!ChangesAreTold
  <2> QED
    BY <1>1, <2>2
<1>6. NumbersAreEdits' /\ Lab!AcceptedWasApplied' /\ Lab!ProposalsKnowEdits'
  BY DEF ChatInv, NumbersAreEdits, Lab!AcceptedWasApplied, Lab!ProposalsKnowEdits, Lab!IsProposal
<1> QED
  BY <1>2, <1>3, <1>4, <1>5, <1>6 DEF ChatInv

\* A request r becomes q and appends the message m to the chat.
LEMMA MessageAppended ==
  ASSUME ChatInv, NEW r \in Requests, NEW q \in ChatRequest, NEW m \in ChatMessage,
         requests' = [requests EXCEPT ![r] = q], chat' = Append(chat, m),
         UNCHANGED <<strategy, backtests, edits, overlapped>>, strategy.alive,
         Underway(q, strategy.alive, chat', edits), q.pc # "update",
         ~m.accepted, m.answers <= Len(chat),
         m.role = "user_manual_edit" => m.base <= Len(edits),
         m.role = "assistant" /\ m.patch # NoValue =>
           \A e \in DOMAIN chat : chat[e].role = "user_manual_edit" /\ e < m.answers => chat[e].base <= m.base,
         requests[r].pc # "mark",
         requests[r].pc = "log" => m.role = "user_manual_edit" /\ m.base = requests[r].base
  PROVE  ChatInv'
<1>1. /\ requests \in [Requests -> ChatRequest] /\ requests' \in [Requests -> ChatRequest]
      /\ \A s \in Requests : requests'[s] = IF s = r THEN q ELSE requests[s]
  BY DEF ChatInv, ChatTypes
<1>2. chat \in Seq(ChatMessage)
  BY DEF ChatInv, ChatTypes
<1>3. /\ chat' \in Seq(ChatMessage) /\ Len(chat) \in Nat
      /\ DOMAIN chat = 1..Len(chat) /\ DOMAIN chat' = 1..(Len(chat) + 1)
      /\ \A i \in DOMAIN chat : chat'[i] = chat[i]
      /\ chat'[Len(chat) + 1] = m
  BY <1>2, Appended
<1>4. \A i \in DOMAIN chat' : i \in DOMAIN chat \/ (i = Len(chat) + 1 /\ chat'[i] = m)
  BY <1>3
<1>5. DOMAIN chat \subseteq DOMAIN chat' /\ Len(chat) + 1 \in DOMAIN chat'
  BY <1>3
<1>6. ChatTypes'
  <2>1. m.answers \in Nat
    BY DEF ChatMessage
  <2>2. \A i \in DOMAIN chat' : chat'[i].answers <= i
    BY <1>3, <1>4, <2>1 DEF ChatInv, ChatTypes
  <2> QED
    BY <1>1, <1>3, <2>2 DEF ChatInv, ChatTypes
<1>7. AllUnderway'
  <2>1. ASSUME NEW s \in Requests, s # r
        PROVE  Underway(requests[s], strategy.alive, chat', edits)
    <3>1. Underway(requests[s], strategy.alive, chat, edits)
      BY DEF ChatInv, AllUnderway
    <3>2. ASSUME requests[s].kind = "chat", requests[s].pc = "model"
          PROVE  \A e \in DOMAIN chat' : chat'[e].role = "user_manual_edit" /\ e < requests[s].msg
                                           => chat'[e].base <= requests[s].base
      <4>1. requests[s].msg \in DOMAIN chat
        BY <3>1, <3>2 DEF Underway
      <4>2. \A e \in DOMAIN chat' : e < requests[s].msg => e \in DOMAIN chat /\ chat'[e] = chat[e]
        BY <1>3, <1>4, <4>1
      <4> QED
        BY <3>1, <3>2, <4>2 DEF Underway
    <3>3. requests[s].msg \in DOMAIN chat =>
            requests[s].msg \in DOMAIN chat' /\ chat'[requests[s].msg] = chat[requests[s].msg]
      BY <1>3, <1>5
    <3> QED
      BY <3>1, <3>2, <3>3 DEF Underway
  <2> QED
    BY <1>1, <2>1 DEF AllUnderway
<1>8. NumbersAreEdits'
  BY <1>3, <1>4 DEF ChatInv, NumbersAreEdits
<1>9. OneChange'
  <2>1. Lab!Changing' \subseteq Lab!Changing
    BY <1>1 DEF Lab!Changing
  <2>2. \A s \in Lab!Changing' : requests'[s] = requests[s]
    BY <1>1 DEF Lab!Changing
  <2> QED
    BY <2>1, <2>2 DEF ChatInv, OneChange
<1>10. Lab!AcceptedWasApplied'
  BY <1>3, <1>4 DEF ChatInv, Lab!AcceptedWasApplied
<1>11. Lab!ChangesAreTold'
  <2>1. SUFFICES ASSUME NEW k \in DOMAIN edits
        PROVE  \/ \E i \in DOMAIN chat' : chat'[i].role = "user_manual_edit" /\ chat'[i].base = k
               \/ \E i \in DOMAIN chat' : chat'[i].accepted /\ chat'[i].patch = edits[k]
               \/ \E s \in Requests : requests'[s].pc \in {"log", "mark"} /\ requests'[s].base = k
    BY DEF Lab!ChangesAreTold
  <2>2. CASE \E i \in DOMAIN chat : chat[i].role = "user_manual_edit" /\ chat[i].base = k
    BY <1>3, <1>5, <2>2
  <2>3. CASE \E i \in DOMAIN chat : chat[i].accepted /\ chat[i].patch = edits[k]
    BY <1>3, <1>5, <2>3
  <2>4. CASE \E s \in Requests : requests[s].pc \in {"log", "mark"} /\ requests[s].base = k
    <3>1. PICK s \in Requests : requests[s].pc \in {"log", "mark"} /\ requests[s].base = k
      BY <2>4
    <3>2. CASE s = r
      BY <1>3, <1>5, <3>1, <3>2
    <3>3. CASE s # r
      BY <1>1, <3>1, <3>3
    <3> QED
      BY <3>2, <3>3
  <2> QED
    BY <2>2, <2>3, <2>4 DEF ChatInv, Lab!ChangesAreTold
<1>12. Lab!ProposalsKnowEdits'
  <2>1. SUFFICES ASSUME NEW p \in DOMAIN chat', NEW e \in DOMAIN chat',
                        chat'[p].role = "assistant", chat'[p].patch # NoValue,
                        chat'[e].role = "user_manual_edit", e < chat'[p].answers
        PROVE  chat'[p].base >= chat'[e].base
    BY DEF Lab!ProposalsKnowEdits, Lab!IsProposal
  <2>2. chat'[p].answers <= Len(chat)
    <3>1. CASE p \in DOMAIN chat
      <4>1. chat[p].answers \in Nat /\ chat[p].answers <= p /\ p <= Len(chat) /\ p \in Nat
        BY <1>2, <3>1, MessageFields DEF ChatInv, ChatTypes
      <4> QED
        BY <1>3, <3>1, <4>1
    <3> QED
      BY <1>4, <3>1
  <2>3. chat'[p].answers \in Nat /\ chat'[p].base \in Nat /\ e \in Nat
    BY <1>3, MessageFields
  <2>4. e \in DOMAIN chat /\ chat'[e] = chat[e] /\ chat[e].base \in Nat
    <3>1. e \in DOMAIN chat
      BY <1>3, <2>1, <2>2, <2>3
    <3> QED
      BY <1>2, <1>3, <3>1, MessageFields
  <2>5. CASE p \in DOMAIN chat
    <3>1. chat[p].base >= chat[e].base
      BY <1>3, <2>1, <2>4, <2>5 DEF ChatInv, Lab!ProposalsKnowEdits, Lab!IsProposal
    <3> QED
      BY <1>3, <2>4, <2>5, <3>1
  <2>6. CASE chat'[p] = m
    BY <2>1, <2>3, <2>4, <2>6
  <2> QED
    BY <1>4, <2>5, <2>6
<1> QED
  BY <1>6, <1>7, <1>8, <1>9, <1>10, <1>11, <1>12 DEF ChatInv

\* A request as it is, and after Goes(r, pc).
LEMMA RequestFields ==
  ASSUME ChatInv, NEW r \in Requests
  PROVE  /\ requests[r] \in ChatRequest /\ Underway(requests[r], strategy.alive, chat, edits)
         /\ requests[r].kind \in Lab!Kinds \cup {NoValue} /\ requests[r].version \in Nat /\ requests[r].base \in Nat
         /\ requests[r].msg \in Nat /\ requests[r].spec \in Drafts \cup {NoValue}
         /\ strategy.spec \in Drafts /\ strategy.version \in Nat \ {0} /\ strategy.alive \in BOOLEAN
         /\ Len(chat) \in Nat /\ Len(edits) \in Nat /\ overlapped \in BOOLEAN
BY DEF ChatInv, ChatTypes, AllUnderway, ChatRequest

LEMMA ArrivesKeeps ==
  ASSUME ChatInv, NEW r \in Requests, NEW kind \in Lab!Kinds, NEW pc \in {"update", "post", "run"},
         NEW edited \in Drafts, NEW msg \in Nat, Lab!Arrives(r, kind, pc, edited, msg),
         kind = "apply" => msg \in DOMAIN chat /\ chat[msg].patch = edited
  PROVE  ChatInv'
<1> DEFINE q == [kind |-> kind, pc |-> pc, version |-> strategy.version, spec |-> edited, base |-> Len(edits), msg |-> msg]
<1>1. /\ requests[r] = Lab!NoRequest /\ strategy.alive /\ requests' = [requests EXCEPT ![r] = q]
      /\ overlapped' = (overlapped \/ (pc = "update" /\ Lab!Changing # {}))
      /\ UNCHANGED <<strategy, chat, backtests, edits>>
  BY DEF Lab!Arrives
<1>2. /\ q.kind = kind /\ q.pc = pc /\ q.version = strategy.version /\ q.spec = edited /\ q.base = Len(edits) /\ q.msg = msg
      /\ Lab!NoRequest.pc = "new"
  BY DEF Lab!NoRequest
<1>3. q \in ChatRequest
  BY RequestFields DEF ChatRequest
<1> HIDE DEF q
<1>4. Underway(q, strategy.alive, chat, edits)
  BY <1>2 DEF Underway
<1>5. overlapped' \in BOOLEAN /\ (~overlapped' => ~overlapped /\ (q.pc = "update" => Lab!Changing = {}))
  BY <1>1, <1>2, RequestFields
<1>6. backtests' \subseteq Drafts /\ (~strategy.alive => backtests' = {})
  BY <1>1 DEF ChatInv, ChatTypes
<1> QED
  BY <1>1, <1>2, <1>3, <1>4, <1>5, <1>6, OnlyRequests

\* The steps that change nothing but their request, and perhaps the stored backtests.
LEMMA QuietKeeps ==
  ASSUME ChatInv, NEW r \in Requests, NEW q \in ChatRequest,
         requests' = [requests EXCEPT ![r] = q], UNCHANGED <<strategy, chat, edits, overlapped>>,
         q.pc = "done" \/ (q.pc = "model" /\ Underway(q, strategy.alive, chat, edits)),
         backtests' \subseteq Drafts, ~strategy.alive => backtests' = {},
         strategy.alive => requests[r].pc # "log" /\ requests[r].pc # "mark"
  PROVE  ChatInv'
<1>1. Underway(q, strategy.alive, chat, edits)
  BY DEF Underway
<1>2. q.pc # "update" /\ overlapped \in BOOLEAN
  BY RequestFields
<1> QED
  BY <1>1, <1>2, OnlyRequests

LEMMA GoneTo ==
  ASSUME ChatInv, NEW r \in Requests, Lab!Goes(r, "done")
  PROVE  \E q \in ChatRequest : requests' = [requests EXCEPT ![r] = q] /\ q.pc = "done"
<1> DEFINE q == [requests[r] EXCEPT !.pc = "done"]
<1>1. requests[r] \in ChatRequest /\ requests \in [Requests -> ChatRequest]
  BY RequestFields DEF ChatInv, ChatTypes
<1>2. q \in ChatRequest /\ q.pc = "done"
  BY <1>1 DEF ChatRequest
<1>3. requests' = [requests EXCEPT ![r] = q]
  BY DEF Lab!Goes
<1> QED
  BY <1>2, <1>3

\* update_spec: one more edit.
LEMMA UpdatedKeeps ==
  ASSUME ChatInv, NEW r \in Requests, NEW pc \in {"log", "mark"}, NEW kind \in {"edit", "apply"},
         Lab!At(r, kind, "update"), strategy.alive, Lab!Updated(r, pc)
  PROVE  ChatInv'
<1> DEFINE q == [requests[r] EXCEPT !.pc = pc, !.base = Len(edits) + 1]
           edited == requests[r].spec
<1>1. /\ strategy' = [strategy EXCEPT !.spec = edited, !.version = requests[r].version + 1]
      /\ edits' = Append(edits, edited) /\ UNCHANGED <<chat, backtests, overlapped>>
      /\ requests[r].pc = "update" /\ requests[r].kind = kind
  BY DEF Lab!Updated, Lab!At
<1>2. requests[r] \in ChatRequest /\ requests \in [Requests -> ChatRequest] /\ edits \in Seq(Drafts)
  BY RequestFields DEF ChatInv, ChatTypes
<1>3. /\ q \in ChatRequest /\ q.pc = pc /\ q.base = Len(edits) + 1 /\ q.spec = edited /\ q.kind = kind
      /\ q.msg = requests[r].msg /\ requests' = [requests EXCEPT ![r] = q]
  <2>1. Len(edits) + 1 \in Nat
    BY RequestFields
  <2>2. requests' = [requests EXCEPT ![r] = q]
    BY <1>2 DEF Lab!Updated
  <2> QED
    BY <1>1, <1>2, <2>1, <2>2 DEF ChatRequest
<1> HIDE DEF q
<1>4. edited \in Drafts
  BY <1>1, RequestFields DEF Underway
<1>5. /\ edits' \in Seq(Drafts) /\ Len(edits') = Len(edits) + 1 /\ Len(edits) \in Nat
      /\ DOMAIN edits = 1..Len(edits) /\ DOMAIN edits' = 1..(Len(edits) + 1)
      /\ (\A k \in DOMAIN edits : edits'[k] = edits[k]) /\ edits'[Len(edits) + 1] = edited
  BY <1>1, <1>2, <1>4, Appended
<1>6. \A k \in DOMAIN edits' : k \in DOMAIN edits \/ k = Len(edits) + 1
  BY <1>5
<1>7. DOMAIN edits \subseteq DOMAIN edits' /\ Len(edits) + 1 \in DOMAIN edits'
  BY <1>5
<1>8. \A s \in Requests : requests'[s] = IF s = r THEN q ELSE requests[s]
  BY <1>2, <1>3
<1>9. requests' \in [Requests -> ChatRequest]
  BY <1>2, <1>3
<1>10. /\ strategy' \in [alive : BOOLEAN, spec : Drafts, version : Nat \ {0}] /\ strategy'.alive
       /\ strategy'.version = requests[r].version + 1
  <2>1. requests[r].version + 1 \in Nat \ {0}
    <3>1. requests[r].version \in Nat
      BY RequestFields
    <3> QED
      BY <3>1
  <2>2. strategy \in [alive : BOOLEAN, spec : Drafts, version : Nat \ {0}]
    BY DEF ChatInv, ChatTypes
  <2> QED
    BY <1>1, <1>4, <2>1, <2>2
<1>11. ChatTypes'
  BY <1>1, <1>5, <1>9, <1>10 DEF ChatInv, ChatTypes
<1>12. AllUnderway'
  <2>1. Underway(requests[r], strategy.alive, chat, edits)
    BY RequestFields
  <2>2. Underway(q, TRUE, chat, edits')
    BY <1>1, <1>3, <1>5, <1>7, <2>1 DEF Underway
  <2>3. ASSUME NEW s \in Requests, s # r
        PROVE  Underway(requests[s], TRUE, chat, edits')
    <3>1. Underway(requests[s], TRUE, chat, edits)
      BY DEF ChatInv, AllUnderway
    <3> QED
      BY <1>5, <1>7, <3>1 DEF Underway
  <2> QED
    BY <1>1, <1>8, <1>10, <2>2, <2>3 DEF AllUnderway
<1>13. NumbersAreEdits'
  <2>1. ASSUME NEW e \in DOMAIN chat, chat[e].role = "user_manual_edit"
        PROVE  chat[e].base <= Len(edits) + 1
    <3>1. chat[e].base <= Len(edits) /\ chat[e].base \in Nat
      BY <2>1, MessageFields DEF ChatInv, ChatTypes, NumbersAreEdits
    <3> QED
      BY <1>5, <3>1
  <2> QED
    BY <1>1, <1>5, <2>1 DEF NumbersAreEdits
<1>14. OneChange'
  <2>1. SUFFICES ASSUME ~overlapped
        PROVE  /\ \A s, u \in Lab!Changing' : s = u
               /\ \A s \in Lab!Changing' : requests'[s].version = strategy'.version
               /\ strategy'.version = 1 + Len(edits')
    BY <1>1 DEF OneChange
  <2>2. r \in Lab!Changing /\ \A s \in Lab!Changing : s = r
    BY <1>1, <2>1 DEF ChatInv, OneChange, Lab!Changing
  <2>3. Lab!Changing' = {}
    BY <1>3, <1>8, <2>2 DEF Lab!Changing
  <2>4. requests[r].version = strategy.version /\ strategy.version = 1 + Len(edits)
    BY <2>1, <2>2 DEF ChatInv, OneChange
  <2> QED
    BY <1>5, <1>10, <2>3, <2>4
<1>15. Lab!AcceptedWasApplied'
  BY <1>1, <1>5, <1>7 DEF ChatInv, Lab!AcceptedWasApplied
<1>16. Lab!ChangesAreTold'
  <2>1. SUFFICES ASSUME NEW k \in DOMAIN edits'
        PROVE  \/ \E i \in DOMAIN chat : chat[i].role = "user_manual_edit" /\ chat[i].base = k
               \/ \E i \in DOMAIN chat : chat[i].accepted /\ chat[i].patch = edits'[k]
               \/ \E s \in Requests : requests'[s].pc \in {"log", "mark"} /\ requests'[s].base = k
    BY <1>1 DEF Lab!ChangesAreTold
  <2>2. CASE k = Len(edits) + 1
    BY <1>3, <1>8, <2>2
  <2>3. CASE k \in DOMAIN edits
    <3>1. \/ \E i \in DOMAIN chat : chat[i].role = "user_manual_edit" /\ chat[i].base = k
          \/ \E i \in DOMAIN chat : chat[i].accepted /\ chat[i].patch = edits[k]
          \/ \E s \in Requests : requests[s].pc \in {"log", "mark"} /\ requests[s].base = k
      BY <2>3 DEF ChatInv, Lab!ChangesAreTold
    <3>2. \A s \in Requests : requests[s].pc \in {"log", "mark"} => s # r
      BY <1>1
    <3>3. edits'[k] = edits[k]
      BY <1>5, <2>3
    <3> QED
      BY <1>8, <3>1, <3>2, <3>3
  <2> QED
    BY <1>6, <2>2, <2>3
<1>17. Lab!ProposalsKnowEdits'
  BY <1>1 DEF ChatInv, Lab!ProposalsKnowEdits, Lab!IsProposal
<1> QED
  BY <1>11, <1>12, <1>13, <1>14, <1>15, <1>16, <1>17 DEF ChatInv

LEMMA EditLogKeeps ==
  ASSUME ChatInv, NEW r \in Requests, Lab!EditLog(r)
  PROVE  ChatInv'
<1> DEFINE m == Lab!Message("user_manual_edit", requests[r].spec, requests[r].base, 0)
<1>1. /\ requests[r].kind = "edit" /\ requests[r].pc = "log" /\ strategy.alive
      /\ chat' = Append(chat, m) /\ Lab!Goes(r, "done") /\ UNCHANGED <<strategy, backtests, edits, overlapped>>
  BY DEF Lab!EditLog, Lab!At
<1>2. /\ m \in ChatMessage /\ m.role = "user_manual_edit" /\ m.base = requests[r].base
      /\ ~m.accepted /\ m.answers = 0
  BY RequestFields DEF Lab!Message, ChatMessage, Lab!Roles
<1>3. PICK q \in ChatRequest : requests' = [requests EXCEPT ![r] = q] /\ q.pc = "done"
  BY <1>1, GoneTo
<1>4. Underway(q, strategy.alive, chat', edits)
  BY <1>3 DEF Underway
<1>5. m.base <= Len(edits) /\ m.answers <= Len(chat)
  <2>1. requests[r].base \in DOMAIN edits
    BY <1>1, RequestFields DEF Underway
  <2>2. edits \in Seq(Drafts)
    BY DEF ChatInv, ChatTypes
  <2> QED
    BY <1>2, <2>1, <2>2, RequestFields
<1> HIDE DEF m
<1> QED
  BY <1>1, <1>2, <1>3, <1>4, <1>5, MessageAppended

LEMMA ApplyMarkKeeps ==
  ASSUME ChatInv, NEW r \in Requests, Lab!ApplyMark(r)
  PROVE  ChatInv'
<1> DEFINE n == requests[r].msg
<1>1. /\ requests[r].kind = "apply" /\ requests[r].pc = "mark" /\ strategy.alive
      /\ chat' = [chat EXCEPT ![n].accepted = TRUE]
      /\ Lab!Goes(r, "done") /\ UNCHANGED <<strategy, backtests, edits, overlapped>>
  BY DEF Lab!ApplyMark, Lab!At
<1>2. PICK q \in ChatRequest : requests' = [requests EXCEPT ![r] = q] /\ q.pc = "done"
  BY <1>1, GoneTo
<1>3. /\ requests \in [Requests -> ChatRequest] /\ requests' \in [Requests -> ChatRequest]
      /\ \A s \in Requests : requests'[s] = IF s = r THEN q ELSE requests[s]
  BY <1>2 DEF ChatInv, ChatTypes
<1>4. /\ n \in DOMAIN chat /\ chat[n].patch = requests[r].spec
      /\ requests[r].base \in DOMAIN edits /\ edits[requests[r].base] = requests[r].spec
  BY <1>1, RequestFields DEF Underway
<1>5. chat \in Seq(ChatMessage)
  BY DEF ChatInv, ChatTypes
<1>6. /\ chat' \in Seq(ChatMessage) /\ DOMAIN chat' = DOMAIN chat /\ chat'[n].accepted
      /\ \A i \in DOMAIN chat : /\ chat'[i].role = chat[i].role /\ chat'[i].patch = chat[i].patch
                                /\ chat'[i].base = chat[i].base /\ chat'[i].answers = chat[i].answers
                                /\ i # n => chat'[i] = chat[i]
  <2> DEFINE m == [chat[n] EXCEPT !.accepted = TRUE]
  <2>1. chat[n] \in ChatMessage
    BY <1>4, <1>5, MessageFields
  <2>2. /\ m \in ChatMessage /\ m.accepted /\ m.role = chat[n].role /\ m.patch = chat[n].patch
        /\ m.base = chat[n].base /\ m.answers = chat[n].answers
    BY <2>1 DEF ChatMessage
  <2>3. chat' = [chat EXCEPT ![n] = m]
    BY <1>1, <1>4, <1>5
  <2> HIDE DEF m
  <2>4. chat' \in Seq(ChatMessage) /\ DOMAIN chat' = DOMAIN chat
    BY <1>4, <1>5, <2>2, <2>3
  <2>5. \A i \in DOMAIN chat : chat'[i] = IF i = n THEN m ELSE chat[i]
    BY <1>4, <1>5, <2>3
  <2> QED
    BY <1>4, <2>2, <2>4, <2>5
<1> HIDE DEF n
<1>7. ChatTypes'
  BY <1>1, <1>3, <1>6 DEF ChatInv, ChatTypes
<1>8. AllUnderway'
  <2>1. ASSUME NEW s \in Requests, s # r
        PROVE  Underway(requests[s], strategy.alive, chat', edits)
    <3>1. Underway(requests[s], strategy.alive, chat, edits)
      BY DEF ChatInv, AllUnderway
    <3> QED
      BY <1>6, <3>1 DEF Underway
  <2>2. Underway(q, strategy.alive, chat', edits)
    BY <1>2 DEF Underway
  <2> QED
    BY <1>1, <1>3, <2>1, <2>2 DEF AllUnderway
<1>9. NumbersAreEdits'
  BY <1>1, <1>6 DEF ChatInv, NumbersAreEdits
<1>10. OneChange'
  <2>1. Lab!Changing' = Lab!Changing /\ \A s \in Lab!Changing : requests'[s] = requests[s]
    BY <1>1, <1>2, <1>3 DEF Lab!Changing
  <2> QED
    BY <1>1, <2>1 DEF ChatInv, OneChange
<1>11. Lab!AcceptedWasApplied'
  <2>1. ASSUME NEW i \in DOMAIN chat, chat'[i].accepted
        PROVE  \E k \in DOMAIN edits : edits[k] = chat[i].patch
    <3>1. CASE i = n
      BY <1>4, <3>1 DEF n
    <3>2. CASE i # n
      BY <1>6, <2>1, <3>2 DEF ChatInv, Lab!AcceptedWasApplied
    <3> QED
      BY <3>1, <3>2
  <2> QED
    BY <1>1, <1>6, <2>1 DEF Lab!AcceptedWasApplied
<1>12. Lab!ChangesAreTold'
  <2>1. SUFFICES ASSUME NEW k \in DOMAIN edits
        PROVE  \/ \E i \in DOMAIN chat : chat[i].role = "user_manual_edit" /\ chat[i].base = k
               \/ \E i \in DOMAIN chat : chat'[i].accepted /\ chat[i].patch = edits[k]
               \/ \E s \in Requests : requests'[s].pc \in {"log", "mark"} /\ requests'[s].base = k
    BY <1>1, <1>6 DEF Lab!ChangesAreTold
  <2>2. CASE \E i \in DOMAIN chat : chat[i].role = "user_manual_edit" /\ chat[i].base = k
    BY <2>2
  <2>3. CASE \E i \in DOMAIN chat : chat[i].accepted /\ chat[i].patch = edits[k]
    BY <1>6, <2>3
  <2>4. CASE \E s \in Requests : requests[s].pc \in {"log", "mark"} /\ requests[s].base = k
    <3>1. PICK s \in Requests : requests[s].pc \in {"log", "mark"} /\ requests[s].base = k
      BY <2>4
    <3>2. CASE s = r
      BY <1>4, <1>6, <3>1, <3>2 DEF n
    <3>3. CASE s # r
      BY <1>3, <3>1, <3>3
    <3> QED
      BY <3>2, <3>3
  <2> QED
    BY <1>1, <2>2, <2>3, <2>4 DEF ChatInv, Lab!ChangesAreTold
<1>13. Lab!ProposalsKnowEdits'
  BY <1>6 DEF ChatInv, Lab!ProposalsKnowEdits, Lab!IsProposal
<1> QED
  BY <1>7, <1>8, <1>9, <1>10, <1>11, <1>12, <1>13 DEF ChatInv

LEMMA ChatPostKeeps ==
  ASSUME ChatInv, NEW r \in Requests, Lab!ChatPost(r)
  PROVE  ChatInv'
<1> DEFINE m == Lab!Message("user", NoValue, Len(edits), 0)
           q == [requests[r] EXCEPT !.pc = "prompt", !.msg = Len(chat) + 1]
<1>1. /\ requests[r].kind = "chat" /\ requests[r].pc = "post" /\ strategy.alive
      /\ chat' = Append(chat, m) /\ requests' = [requests EXCEPT ![r] = q]
      /\ UNCHANGED <<strategy, backtests, edits, overlapped>>
  <2>1. requests \in [Requests -> ChatRequest]
    BY DEF ChatInv, ChatTypes
  <2> QED
    BY <2>1 DEF Lab!ChatPost, Lab!At
<1>2. /\ m \in ChatMessage /\ m.role = "user" /\ ~m.accepted /\ m.answers = 0
  BY RequestFields DEF Lab!Message, ChatMessage, Lab!Roles
<1>3. q \in ChatRequest /\ q.pc = "prompt" /\ q.msg = Len(chat) + 1 /\ q.kind = "chat"
  <2>1. Len(chat) + 1 \in Nat /\ requests[r] \in ChatRequest
    BY RequestFields
  <2> QED
    BY <1>1, <2>1 DEF ChatRequest
<1> HIDE DEF m, q
<1>4. Len(chat) + 1 \in DOMAIN chat'
  BY <1>1, <1>2, Appended DEF ChatInv, ChatTypes
<1>5. Underway(q, strategy.alive, chat', edits)
  BY <1>3, <1>4 DEF Underway
<1>6. m.answers <= Len(chat)
  BY <1>2, RequestFields
<1> QED
  BY <1>1, <1>2, <1>3, <1>5, <1>6, MessageAppended

LEMMA ChatPromptKeeps ==
  ASSUME ChatInv, NEW r \in Requests, Lab!ChatPrompt(r)
  PROVE  ChatInv'
<1> DEFINE q == Lab!PromptedWith(r)
<1>1. /\ requests[r].kind = "chat" /\ requests[r].pc = "prompt" /\ strategy.alive
      /\ requests' = [requests EXCEPT ![r] = q] /\ UNCHANGED <<strategy, chat, backtests, edits, overlapped>>
  BY DEF Lab!ChatPrompt, Lab!At
<1>2. /\ q \in ChatRequest /\ q.pc = "model" /\ q.base = Len(edits) /\ q.kind = "chat" /\ q.msg = requests[r].msg
  BY <1>1, RequestFields DEF Lab!PromptedWith, ChatRequest
<1> HIDE DEF q
<1>3. Underway(q, strategy.alive, chat, edits)
  <2>1. requests[r].msg \in DOMAIN chat
    BY <1>1, RequestFields DEF Underway
  <2>2. \A e \in DOMAIN chat : chat[e].role = "user_manual_edit" => chat[e].base <= Len(edits)
    BY DEF ChatInv, NumbersAreEdits
  <2> QED
    BY <1>2, <2>1, <2>2 DEF Underway
<1>4. backtests' \subseteq Drafts
  BY <1>1 DEF ChatInv, ChatTypes
<1> QED
  BY <1>1, <1>2, <1>3, <1>4, QuietKeeps

LEMMA ChatAnswerKeeps ==
  ASSUME ChatInv, NEW r \in Requests, NEW patch \in Drafts \cup {NoValue}, Lab!ChatAnswer(r, patch)
  PROVE  ChatInv'
<1> DEFINE m == Lab!Message("assistant", patch, requests[r].base, requests[r].msg)
<1>1. /\ requests[r].kind = "chat" /\ requests[r].pc = "model" /\ strategy.alive
      /\ chat' = Append(chat, m) /\ Lab!Goes(r, "done") /\ UNCHANGED <<strategy, backtests, edits, overlapped>>
  BY DEF Lab!ChatAnswer, Lab!At
<1>2. /\ m \in ChatMessage /\ m.role = "assistant" /\ m.base = requests[r].base
      /\ ~m.accepted /\ m.answers = requests[r].msg
  BY RequestFields DEF Lab!Message, ChatMessage, Lab!Roles
<1>3. PICK q \in ChatRequest : requests' = [requests EXCEPT ![r] = q] /\ q.pc = "done"
  BY <1>1, GoneTo
<1>4. Underway(q, strategy.alive, chat', edits)
  BY <1>3 DEF Underway
<1>5. /\ m.answers <= Len(chat)
      /\ \A e \in DOMAIN chat : chat[e].role = "user_manual_edit" /\ e < m.answers => chat[e].base <= m.base
  <2>1. requests[r].msg \in DOMAIN chat
    BY <1>1, RequestFields DEF Underway
  <2>2. requests[r].msg <= Len(chat)
    BY <2>1, MessageFields DEF ChatInv, ChatTypes
  <2>3. \A e \in DOMAIN chat : chat[e].role = "user_manual_edit" /\ e < requests[r].msg => chat[e].base <= requests[r].base
    BY <1>1, RequestFields DEF Underway
  <2> QED
    BY <1>2, <2>2, <2>3
<1> HIDE DEF m
<1> QED
  BY <1>1, <1>2, <1>3, <1>4, <1>5, MessageAppended

LEMMA DeleteKeeps ==
  ASSUME ChatInv, NEW r \in Requests, Lab!Delete(r)
  PROVE  ChatInv'
<1> DEFINE q == [Lab!NoRequest EXCEPT !.kind = "delete", !.pc = "done"]
<1>1. /\ requests[r] = Lab!NoRequest /\ strategy' = [strategy EXCEPT !.alive = FALSE]
      /\ chat' = <<>> /\ backtests' = {} /\ requests' = [requests EXCEPT ![r] = q]
      /\ UNCHANGED <<edits, overlapped>>
  BY DEF Lab!Delete
<1>2. q \in ChatRequest /\ q.pc = "done" /\ Lab!NoRequest.pc = "new"
  BY DEF Lab!NoRequest, ChatRequest, Lab!Kinds
<1> HIDE DEF q
<1>3. /\ requests \in [Requests -> ChatRequest] /\ requests' \in [Requests -> ChatRequest]
      /\ \A s \in Requests : requests'[s] = IF s = r THEN q ELSE requests[s]
  BY <1>1, <1>2 DEF ChatInv, ChatTypes
<1>4. /\ strategy' \in [alive : BOOLEAN, spec : Drafts, version : Nat \ {0}]
      /\ strategy'.alive = FALSE /\ strategy'.version = strategy.version
  <2>1. strategy \in [alive : BOOLEAN, spec : Drafts, version : Nat \ {0}]
    BY DEF ChatInv, ChatTypes
  <2> QED
    BY <1>1, <2>1
<1>5. chat' \in Seq(ChatMessage) /\ DOMAIN chat' = {}
  BY <1>1
<1>6. ChatTypes'
  BY <1>1, <1>3, <1>4, <1>5 DEF ChatInv, ChatTypes
<1>7. AllUnderway'
  <2>1. ASSUME NEW s \in Requests
        PROVE  Underway(requests'[s], FALSE, chat', edits)
    <3>1. CASE s = r
      BY <1>2, <1>3, <3>1 DEF Underway
    <3>2. CASE s # r
      <4>1. Underway(requests[s], strategy.alive, chat, edits) /\ requests'[s] = requests[s]
        BY <1>3, <3>2 DEF ChatInv, AllUnderway
      <4> QED
        BY <4>1 DEF Underway
    <3> QED
      BY <3>1, <3>2
  <2> QED
    BY <1>1, <1>4, <2>1 DEF AllUnderway
<1>8. OneChange'
  <2>1. Lab!Changing' = Lab!Changing /\ \A s \in Lab!Changing : requests'[s] = requests[s]
    BY <1>1, <1>2, <1>3 DEF Lab!Changing
  <2> QED
    BY <1>1, <1>4, <2>1 DEF ChatInv, OneChange
<1> QED
  BY <1>4, <1>5, <1>6, <1>7, <1>8
     DEF ChatInv, NumbersAreEdits, Lab!AcceptedWasApplied, Lab!ChangesAreTold, Lab!ProposalsKnowEdits

\* The steps of a request that end it and leave the chat alone.
LEMMA EndsKeeps ==
  ASSUME ChatInv, NEW r \in Requests, Lab!ChatRefused(r) \/ Lab!BacktestStore(r) \/ Lab!FailsIfGone(r)
  PROVE  ChatInv'
<1>1. /\ Lab!Goes(r, "done") /\ UNCHANGED <<strategy, chat, edits, overlapped>>
      /\ strategy.alive => requests[r].pc # "log" /\ requests[r].pc # "mark"
  BY DEF Lab!ChatRefused, Lab!BacktestStore, Lab!FailsIfGone, Lab!At
<1>2. PICK q \in ChatRequest : requests' = [requests EXCEPT ![r] = q] /\ q.pc = "done"
  BY <1>1, GoneTo
<1>3. backtests' \subseteq Drafts /\ (~strategy.alive => backtests' = {})
  <2>1. backtests \subseteq Drafts /\ (~strategy.alive => backtests = {})
    BY DEF ChatInv, ChatTypes
  <2>2. CASE Lab!ChatRefused(r) \/ Lab!FailsIfGone(r)
    BY <2>1, <2>2 DEF Lab!ChatRefused, Lab!FailsIfGone
  <2>3. CASE Lab!BacktestStore(r)
    <3>1. requests[r].spec \in Drafts
      BY <2>3, RequestFields DEF Lab!BacktestStore, Lab!At, Underway
    <3> QED
      BY <2>1, <2>3, <3>1 DEF Lab!BacktestStore
  <2> QED
    BY <2>2, <2>3
<1> QED
  BY <1>1, <1>2, <1>3, QuietKeeps

LEMMA ChatKeeps == ChatInv /\ [Lab!Next]_(Lab!vars) => ChatInv'
<1> SUFFICES ASSUME ChatInv, [Lab!Next]_(Lab!vars) PROVE ChatInv'
  OBVIOUS
<1>1. ASSUME NEW r \in Requests, NEW edited \in Drafts, Lab!Edit(r, edited)
      PROVE  ChatInv'
  <2>1. Lab!Arrives(r, "edit", "update", edited, 0)
    BY <1>1 DEF Lab!Edit
  <2> QED
    BY <2>1, ArrivesKeeps DEF Lab!Kinds
<1>2. ASSUME NEW r \in Requests, NEW i \in 1..Len(chat), Lab!Apply(r, i)
      PROVE  ChatInv'
  <2>1. i \in DOMAIN chat /\ chat[i].patch # NoValue /\ Lab!Arrives(r, "apply", "update", chat[i].patch, i)
    BY <1>2 DEF Lab!Apply, Lab!IsProposal
  <2>2. chat[i].patch \in Drafts /\ i \in Nat
    BY <2>1, MessageFields DEF ChatInv, ChatTypes
  <2> QED
    BY <2>1, <2>2, ArrivesKeeps DEF Lab!Kinds
<1>3. ASSUME NEW r \in Requests, Lab!Chat(r) \/ Lab!Backtest(r)
      PROVE  ChatInv'
  <2>1. strategy.spec \in Drafts
    BY RequestFields
  <2>2. CASE Lab!Chat(r)
    <3>1. Lab!Arrives(r, "chat", "post", strategy.spec, 0)
      BY <2>2 DEF Lab!Chat
    <3> QED
      BY <2>1, <3>1, ArrivesKeeps DEF Lab!Kinds
  <2>3. CASE Lab!Backtest(r)
    <3>1. Lab!Arrives(r, "backtest", "run", strategy.spec, 0)
      BY <2>3 DEF Lab!Backtest
    <3> QED
      BY <2>1, <3>1, ArrivesKeeps DEF Lab!Kinds
  <2> QED
    BY <1>3, <2>2, <2>3
<1>4. ASSUME NEW r \in Requests, Lab!EditUpdate(r) \/ Lab!ApplyUpdate(r)
      PROVE  ChatInv'
  <2>1. CASE Lab!EditUpdate(r)
    BY <2>1, UpdatedKeeps DEF Lab!EditUpdate
  <2>2. CASE Lab!ApplyUpdate(r)
    BY <2>2, UpdatedKeeps DEF Lab!ApplyUpdate
  <2> QED
    BY <1>4, <2>1, <2>2
<1>5. ASSUME NEW r \in Requests, NEW patch \in Drafts \cup {NoValue}, Lab!ChatAnswer(r, patch)
      PROVE  ChatInv'
  BY <1>5, ChatAnswerKeeps
<1>6. CASE UNCHANGED Lab!vars
  BY <1>6
     DEF Lab!vars, ChatInv, ChatTypes, AllUnderway, NumbersAreEdits, OneChange, Lab!Changing, Lab!AcceptedWasApplied,
         Lab!ChangesAreTold, Lab!ProposalsKnowEdits, Lab!IsProposal
<1>7. CASE \E r \in Requests : Lab!EditLog(r) \/ Lab!ApplyMark(r) \/ Lab!ChatPost(r) \/ Lab!ChatPrompt(r) \/ Lab!Delete(r)
  BY <1>7, EditLogKeeps, ApplyMarkKeeps, ChatPostKeeps, ChatPromptKeeps, DeleteKeeps
<1>8. CASE \E r \in Requests : Lab!ChatRefused(r) \/ Lab!BacktestStore(r) \/ Lab!FailsIfGone(r)
  BY <1>8, EndsKeeps
<1> QED
  BY <1>1, <1>2, <1>3, <1>4, <1>5, <1>6, <1>7, <1>8 DEF Lab!Next

\* What the run checks of the chat.
LEMMA ChatSays ==
  ASSUME ChatInv
  PROVE  Lab!TypeOK /\ Lab!AcceptedWasApplied /\ Lab!ChangesAreTold /\ Lab!ProposalsKnowEdits /\ Lab!SequentialChangesCount
<1>1. Lab!TypeOK
  <2>1. \A i \in DOMAIN chat :
          chat[i] \in [role : Lab!Roles, patch : Drafts \cup {NoValue}, accepted : BOOLEAN, base : Nat, answers : 0..i]
    <3>1. ASSUME NEW i \in DOMAIN chat
          PROVE  chat[i] \in ChatMessage /\ chat[i].answers \in 0..i
      BY MessageFields DEF ChatInv, ChatTypes
    <3> QED
      BY <3>1 DEF ChatMessage
  <2> QED
    BY <2>1 DEF ChatInv, ChatTypes, Lab!TypeOK, ChatRequest
<1> QED
  BY <1>1 DEF ChatInv, OneChange, Lab!SequentialChangesCount

-----------------------------------------------------------------------------
\* The rounds that evolve the scanner's configuration (EvolveLoop).

\* What the three kinds of file hold, and how an invocation's round lies to the files that are there.
FilesInv ==
    /\ \A v \in Evolve!Versions : ~Evolve!Whole(v) => versions[v].config = {} /\ versions[v].val = Evolve!NoMetrics /\ ~versions[v].kept
    /\ prog.pc = "baseline" => Evolve!Existing = {} /\ prog.round = 0 /\ memory.config = {}
    /\ prog.pc = "loop" => prog.round # 0
    /\ prog.pc = "loop" \/ prog.pc = "write" => \A v \in Evolve!Existing : v < prog.round
    /\ prog.pc = "append" => /\ versions[prog.round] = draft /\ \A v \in Evolve!Existing : v <= prog.round
                             /\ \A i \in DOMAIN log : log[i].v # prog.round
    /\ prog.pc = "write" \/ prog.pc = "append" => draft.file = "whole"
    /\ tail = "bare" => log # <<>>

\* A score that b does not fall behind.
AtMost(a, b) == a.sharpe # NoValue => b.sharpe # NoValue /\ a.sharpe <= b.sharpe

\* The memory of an invocation is what the files say.
MemoryInv ==
    prog.pc = "loop" \/ prog.pc = "write" \/ prog.pc = "append" =>
        /\ \A v \in Evolve!Versions : Evolve!Kept(v) => AtMost(versions[v].val, memory.best)
        /\ memory.base = IF prog.pc = "write" /\ prog.round = 0 THEN draft.val ELSE versions[0].val
        /\ memory.config = Evolve!KeptRounds \cup (IF prog.pc = "write" /\ draft.kept /\ prog.round # 0 THEN {prog.round} ELSE {})

\* The record that is about to be written.
DraftInv ==
    prog.pc = "write" =>
        /\ draft.config = Evolve!KeptRounds \cup (IF prog.round = 0 THEN {} ELSE {prog.round})
        /\ draft.kept => draft.val = memory.best
        /\ draft.kept /\ prog.round # 0 =>
             /\ draft.val.sharpe # NoValue /\ draft.val.turnover # NoValue
             /\ \A v \in Evolve!Versions : Evolve!Kept(v) /\ versions[v].val.sharpe # NoValue => draft.val.sharpe > versions[v].val.sharpe
             /\ memory.base.turnover # NoValue => 2 * draft.val.turnover <= 3 * memory.base.turnover

\* What the end of the log has yet to lose.
Unfinished == IF tail = "newline" THEN 0 ELSE IF tail = "torn" THEN 1 ELSE 2

TightLoss == Cardinality(Evolve!Unlogged) <= 2 * crashes - Unfinished

EvolveInv ==
    /\ Evolve!TypeOK /\ FilesInv /\ MemoryInv /\ DraftInv
    /\ Evolve!CarriesWhatWasKept /\ Evolve!KeptImproves /\ Evolve!TurnoverIsAnchored /\ Evolve!LoggedIsStored /\ TightLoss

LEMMA EvolveConstants ==
  /\ MaxRound \in Nat /\ NoValue \notin Int /\ Tolerance \in Nat
  /\ 0 \in Evolve!Versions /\ Evolve!Rounds = Evolve!Versions \ {0} /\ Evolve!Versions \subseteq Nat /\ IsFiniteSet(Evolve!Versions)
<1>1. MaxRound \in Nat /\ NoValue \notin Int /\ Tolerance \in Nat
  BY StrategiesAssumption DEF Evolve!EvolveAssumption
<1>2. IsFiniteSet(0..MaxRound)
  BY <1>1, FS_Interval
<1> QED
  BY <1>1, <1>2 DEF Evolve!Versions, Evolve!Rounds

LEMMA ScoreFields ==
  ASSUME NEW val \in Metrics \cup {Evolve!NoMetrics}
  PROVE  /\ val.sharpe \in Int \cup {NoValue} /\ val.turnover \in Int \cup {NoValue}
         /\ val.drawdown \in Int \cup {NoValue}
BY StrategiesAssumption DEF Evolve!EvolveAssumption, Evolve!NoMetrics

LEMMA FileFields ==
  ASSUME NEW r \in Evolve!Records
  PROVE  /\ r.file \in {"absent", "partial", "whole"} /\ r.config \in SUBSET Evolve!Rounds
         /\ r.val \in Metrics \cup {Evolve!NoMetrics} /\ r.kept \in BOOLEAN
BY DEF Evolve!Records

LEMMA VersionFields ==
  ASSUME Evolve!TypeOK, NEW v \in Evolve!Versions
  PROVE  /\ versions[v] \in Evolve!Records /\ versions[v].config \in SUBSET Evolve!Rounds
         /\ versions[v].val \in Metrics \cup {Evolve!NoMetrics} /\ versions[v].kept \in BOOLEAN
         /\ versions[v].val.sharpe \in Int \cup {NoValue} /\ versions[v].val.turnover \in Int \cup {NoValue}
<1>1. versions[v] \in Evolve!Records
  BY DEF Evolve!TypeOK
<1> QED
  BY <1>1, FileFields, ScoreFields

LEMMA ElementOf ==
  ASSUME NEW S, NEW s \in Seq(S), NEW i \in DOMAIN s
  PROVE  s[i] \in S
OBVIOUS

LEMMA LogFields ==
  ASSUME Evolve!TypeOK, NEW i \in DOMAIN log
  PROVE  log[i].v \in Evolve!Versions /\ log[i].kept \in BOOLEAN
<1> DEFINE S == [v : Evolve!Versions, kept : BOOLEAN]
<1>1. log \in Seq(S)
  BY DEF Evolve!TypeOK
<1>2. log[i] \in S
  <2> HIDE DEF S
  <2> QED
    BY <1>1, ElementOf
<1> QED
  BY <1>2

\* A set of finitely many numbers that is not empty has a latest one.
LEMMA LatestIsLast ==
  ASSUME NEW S \in SUBSET Nat, IsFiniteSet(S), S # {}
  PROVE  Evolve!Latest(S) \in S /\ \A w \in S : w <= Evolve!Latest(S)
<1> DEFINE F == {T \in SUBSET S : T # {} => \E m \in T : \A w \in T : w <= m}
<1>1. ASSUME NEW T \in SUBSET S, \A U \in SUBSET T : U # T => U \in F
      PROVE  T \in F
  <2>1. SUFFICES ASSUME NEW x \in T
                 PROVE  \E m \in T : \A w \in T : w <= m
    OBVIOUS
  <2>2. T \ {x} \in F
    BY <1>1, <2>1
  <2>3. CASE T \ {x} = {}
    BY <2>1, <2>3
  <2>4. CASE T \ {x} # {}
    <3>1. PICK m \in T \ {x} : \A w \in T \ {x} : w <= m
      BY <2>2, <2>4
    <3>2. CASE m <= x
      BY <2>1, <3>1, <3>2
    <3>3. CASE ~(m <= x)
      BY <2>1, <3>1, <3>3
    <3> QED
      BY <3>2, <3>3
  <2> QED
    BY <2>3, <2>4
<1>2. S \in F
  <2> HIDE DEF F
  <2> QED
    BY <1>1, SetInduction
<1> QED
  BY <1>2 DEF Evolve!Latest

\* The cardinality that EvolveLoop has from the library itself is that of this module.
LEMMA CardinalitiesAreOne == \A S : Evolve!Cardinality(S) = Cardinality(S)
BY DEF Evolve!Cardinality, Cardinality, Evolve!IsFiniteSet, IsFiniteSet

LEMMA EvolveStarts == Evolve!Init => EvolveInv
<1> SUFFICES ASSUME Evolve!Init PROVE EvolveInv
  OBVIOUS
<1>1. /\ prog = [pc |-> "off", round |-> 0, last |-> 0]
      /\ memory = [config |-> {}, best |-> Evolve!NoMetrics, base |-> Evolve!NoMetrics]
      /\ draft = Evolve!Absent /\ versions = [v \in Evolve!Versions |-> Evolve!Absent]
      /\ log = <<>> /\ tail = "newline" /\ crashes = 0
  BY DEF Evolve!Init
<1>2. Evolve!Absent \in Evolve!Records /\ Evolve!Absent.file = "absent" /\ Evolve!Absent.config = {} /\ Evolve!Absent.val = Evolve!NoMetrics /\ Evolve!Absent.kept = FALSE
  BY DEF Evolve!Absent, Evolve!Records
<1>3. \A v \in Evolve!Versions : ~Evolve!Whole(v) /\ ~Evolve!Kept(v)
  BY <1>1, <1>2 DEF Evolve!Whole, Evolve!Kept
<1>4. Evolve!KeptRounds = {} /\ Evolve!Unlogged = {}
  BY <1>3, EvolveConstants DEF Evolve!KeptRounds, Evolve!Unlogged
<1>5. Evolve!TypeOK
  BY <1>1, <1>2, EvolveConstants DEF Evolve!TypeOK
<1>6. FilesInv /\ MemoryInv /\ DraftInv
  BY <1>1, <1>2 DEF FilesInv, MemoryInv, DraftInv
<1>7. TightLoss
  BY <1>1, <1>4, FS_EmptySet DEF TightLoss, Unfinished
<1>8. Evolve!CarriesWhatWasKept /\ Evolve!KeptImproves /\ Evolve!TurnoverIsAnchored /\ Evolve!LoggedIsStored
  BY <1>1, <1>3, <1>4, EvolveConstants DEF Evolve!CarriesWhatWasKept, Evolve!KeptImproves, Evolve!TurnoverIsAnchored, Evolve!LoggedIsStored
<1> QED
  BY <1>5, <1>6, <1>7, <1>8 DEF EvolveInv

\* What _resume_state finds: everything that was kept, and its best score.
LEMMA RestoredIsBest ==
  ASSUME EvolveInv
  PROVE  /\ Evolve!Restored.config = Evolve!KeptRounds /\ Evolve!Restored.val \in Metrics \cup {Evolve!NoMetrics}
         /\ \A v \in Evolve!Versions : Evolve!Kept(v) => AtMost(versions[v].val, Evolve!Restored.val)
<1>1. Evolve!TypeOK /\ FilesInv /\ Evolve!CarriesWhatWasKept /\ Evolve!KeptImproves
  BY DEF EvolveInv
<1>2. Evolve!KeptRounds \subseteq Evolve!Rounds /\ Evolve!KeptRounds \subseteq Nat /\ IsFiniteSet(Evolve!KeptRounds)
      /\ \A v \in Evolve!Versions : Evolve!Kept(v) => v \in Evolve!KeptRounds \/ v = 0
  BY EvolveConstants, FS_Subset DEF Evolve!KeptRounds
<1>3. CASE Evolve!KeptRounds = {}
  <2>1. Evolve!Restored = versions[0] /\ 0 \in Evolve!Versions
    BY <1>3, EvolveConstants DEF Evolve!Restored
  <2>2. versions[0].config = {}
    <3>1. CASE Evolve!Whole(0)
      BY <1>1, <1>3, <2>1, <3>1 DEF Evolve!CarriesWhatWasKept
    <3>2. CASE ~Evolve!Whole(0)
      BY <1>1, <2>1, <3>2 DEF FilesInv
    <3> QED
      BY <3>1, <3>2
  <2>3. \A v \in Evolve!Versions : Evolve!Kept(v) => v = 0
    BY <1>2, <1>3
  <2>4. AtMost(versions[0].val, versions[0].val)
    BY <1>1, <2>1, VersionFields, EvolveConstants DEF AtMost
  <2> QED
    BY <1>1, <1>3, <2>1, <2>2, <2>3, <2>4, VersionFields
<1>4. CASE Evolve!KeptRounds # {}
  <2> DEFINE m == Evolve!Latest(Evolve!KeptRounds)
  <2>1. m \in Evolve!KeptRounds /\ \A w \in Evolve!KeptRounds : w <= m
    BY <1>2, <1>4, LatestIsLast
  <2>2. Evolve!Restored = versions[m]
    BY <1>4 DEF Evolve!Restored
  <2> HIDE DEF m
  <2>3. m \in Evolve!Versions /\ m # 0 /\ m \in Nat /\ Evolve!Kept(m) /\ Evolve!Whole(m)
    BY <2>1, EvolveConstants DEF Evolve!KeptRounds, Evolve!Kept
  <2>4. versions[m].config = {r \in Evolve!KeptRounds : r < m} \cup {m}
    BY <1>1, <2>3 DEF Evolve!CarriesWhatWasKept
  <2>5. {r \in Evolve!KeptRounds : r < m} \cup {m} = Evolve!KeptRounds
    <3>1. ASSUME NEW r \in Evolve!KeptRounds, r # m
          PROVE  r < m
      BY <1>2, <2>1, <2>3, <3>1
    <3> QED
      BY <2>1, <3>1
  <2>6. ASSUME NEW v \in Evolve!Versions, Evolve!Kept(v)
        PROVE  AtMost(versions[v].val, versions[m].val)
    <3>1. v = m \/ v < m
      BY <1>2, <2>1, <2>3, <2>6
    <3>2. CASE v = m
      BY <1>1, <2>3, <3>2, VersionFields, EvolveConstants DEF AtMost
    <3>3. CASE v < m
      <4>1. /\ versions[m].val.sharpe # NoValue
            /\ versions[v].val.sharpe # NoValue => versions[m].val.sharpe > versions[v].val.sharpe
        BY <1>1, <2>1, <2>6, <3>3 DEF Evolve!KeptImproves
      <4> QED
        BY <1>1, <2>3, <4>1, VersionFields DEF AtMost
    <3> QED
      BY <3>1, <3>2, <3>3
  <2> QED
    BY <1>1, <2>2, <2>3, <2>4, <2>5, <2>6, VersionFields
<1> QED
  BY <1>3, <1>4

LEMMA NextRoundIsNew ==
  ASSUME Evolve!TypeOK
  PROVE  Evolve!NextRound \in Nat \ {0} /\ \A v \in Evolve!Existing : v < Evolve!NextRound
<1> DEFINE S == Evolve!Existing \cap Evolve!Rounds
<1>1. Evolve!Existing \subseteq Evolve!Versions /\ S \subseteq Nat /\ IsFiniteSet(S)
      /\ \A v \in Evolve!Existing : v \in S \/ v = 0
  BY EvolveConstants, FS_Subset DEF Evolve!Existing
<1>2. Evolve!NextRound = IF S = {} THEN 1 ELSE Evolve!Latest(S) + 1
  BY DEF Evolve!NextRound
<1> HIDE DEF S
<1>3. CASE S = {}
  BY <1>1, <1>2, <1>3
<1>4. CASE S # {}
  <2>1. Evolve!Latest(S) \in S /\ \A w \in S : w <= Evolve!Latest(S)
    BY <1>1, <1>4, LatestIsLast
  <2> DEFINE n == Evolve!Latest(S)
  <2>2. n \in Nat /\ Evolve!NextRound = n + 1
    BY <1>1, <1>2, <1>4, <2>1
  <2>5. \A w \in S : w <= n
    BY <2>1
  <2> HIDE DEF n
  <2>3. ASSUME NEW v \in Evolve!Existing
        PROVE  v \in Nat /\ v <= n
    <3>1. v \in S \/ v = 0
      BY <1>1
    <3>2. CASE v \in S
      BY <1>1, <2>5, <3>2
    <3>3. CASE v = 0
      BY <2>2, <3>3
    <3> QED
      BY <3>1, <3>2, <3>3
  <2>4. n + 1 \in Nat \ {0} /\ \A v \in Evolve!Existing : v < n + 1
    BY <2>2, <2>3
  <2> QED
    BY <2>2, <2>4
<1> QED
  BY <1>3, <1>4

LEMMA KeptAreThere ==
  /\ Evolve!KeptRounds = {v \in Evolve!Versions : Evolve!Kept(v)} \ {0}
  /\ \A v \in Evolve!Versions : Evolve!Kept(v) => Evolve!Whole(v)
  /\ \A v \in Evolve!Versions : Evolve!Whole(v) => v \in Evolve!Existing
  /\ \A v \in Evolve!Existing : v \in Evolve!Versions /\ v \in Nat
BY EvolveConstants DEF Evolve!KeptRounds, Evolve!Kept, Evolve!Whole, Evolve!Existing

LEMMA ProgFields ==
  ASSUME Evolve!TypeOK
  PROVE  /\ prog.round \in 0..(MaxRound + 1) /\ prog.round \in Nat /\ prog.last \in Evolve!Versions
         /\ prog.pc = "write" \/ prog.pc = "append" => prog.round \in Evolve!Versions
         /\ draft \in Evolve!Records /\ draft.val \in Metrics \cup {Evolve!NoMetrics} /\ draft.config \in SUBSET Evolve!Rounds
         /\ draft.kept \in BOOLEAN
         /\ memory.config \in SUBSET Evolve!Rounds /\ memory.best \in Metrics \cup {Evolve!NoMetrics}
         /\ memory.base \in Metrics \cup {Evolve!NoMetrics}
         /\ crashes \in Nat
<1>1. /\ prog.round \in 0..(MaxRound + 1) /\ prog.round \in Nat /\ prog.last \in Evolve!Versions
      /\ prog.pc = "write" \/ prog.pc = "append" => prog.round \in Evolve!Versions /\ crashes \in Nat
  BY EvolveConstants DEF Evolve!TypeOK
<1>2. draft \in Evolve!Records /\ crashes \in Nat
  BY EvolveConstants DEF Evolve!TypeOK
<1>3. /\ memory.config \in SUBSET Evolve!Rounds /\ memory.best \in Metrics \cup {Evolve!NoMetrics}
      /\ memory.base \in Metrics \cup {Evolve!NoMetrics}
  BY DEF Evolve!TypeOK
<1> QED
  BY <1>1, <1>2, <1>3, FileFields

\* The files stay: so does what they say.
LEMMA FilesStay ==
  ASSUME EvolveInv, UNCHANGED <<versions, log>>
  PROVE  /\ Evolve!CarriesWhatWasKept' /\ Evolve!KeptImproves' /\ Evolve!TurnoverIsAnchored' /\ Evolve!LoggedIsStored'
         /\ Evolve!Existing' = Evolve!Existing /\ Evolve!KeptRounds' = Evolve!KeptRounds
         /\ \A v \in Evolve!Versions : Evolve!Kept(v)' = Evolve!Kept(v) /\ Evolve!Whole(v)' = Evolve!Whole(v)
<1>1. Evolve!Existing' = Evolve!Existing /\ Evolve!KeptRounds' = Evolve!KeptRounds
  BY DEF Evolve!Existing, Evolve!KeptRounds, Evolve!Kept, Evolve!Whole
<1>2. Evolve!CarriesWhatWasKept' /\ Evolve!LoggedIsStored'
  BY <1>1 DEF EvolveInv, Evolve!CarriesWhatWasKept, Evolve!LoggedIsStored, Evolve!Whole
<1>3. Evolve!KeptImproves' /\ Evolve!TurnoverIsAnchored'
  BY <1>1 DEF EvolveInv, Evolve!KeptImproves, Evolve!TurnoverIsAnchored, Evolve!Kept, Evolve!Whole
<1> QED
  BY <1>1, <1>2, <1>3 DEF Evolve!Kept, Evolve!Whole

LEMMA LossStays ==
  ASSUME EvolveInv, UNCHANGED <<versions, log, tail, crashes>>, prog.pc # "append", prog'.pc # "append"
  PROVE  TightLoss'
<1>1. Evolve!Unlogged' = Evolve!Unlogged
  BY DEF Evolve!Unlogged, Evolve!Whole
<1> QED
  BY <1>1 DEF EvolveInv, TightLoss, Unfinished

LEMMA BeginKeeps ==
  ASSUME EvolveInv, NEW last \in Evolve!Rounds, Evolve!Begin(last)
  PROVE  EvolveInv'
<1>1. /\ Evolve!TypeOK /\ FilesInv /\ prog.pc = "off" /\ UNCHANGED <<draft, versions, log, tail, crashes>>
      /\ last \in Evolve!Versions /\ last \in Nat /\ last <= MaxRound /\ MaxRound \in Nat /\ last >= Evolve!NextRound
  BY EvolveConstants DEF EvolveInv, Evolve!Begin, Evolve!Rounds, Evolve!Versions
<1>2. Evolve!NextRound \in Nat \ {0} /\ \A v \in Evolve!Existing : v < Evolve!NextRound
  BY <1>1, NextRoundIsNew
<1>3. Evolve!NextRound \in 0..(MaxRound + 1) /\ 0 \in 0..(MaxRound + 1)
  BY <1>1, <1>2
<1>4. /\ Evolve!CarriesWhatWasKept' /\ Evolve!KeptImproves' /\ Evolve!TurnoverIsAnchored' /\ Evolve!LoggedIsStored'
      /\ Evolve!Existing' = Evolve!Existing /\ Evolve!KeptRounds' = Evolve!KeptRounds
      /\ \A v \in Evolve!Versions : Evolve!Kept(v)' = Evolve!Kept(v) /\ Evolve!Whole(v)' = Evolve!Whole(v)
  BY <1>1, FilesStay
<1>5. Evolve!KeptRounds \in SUBSET Evolve!Rounds /\ 0 \in Evolve!Versions
  BY EvolveConstants DEF Evolve!KeptRounds
<1>6. CASE Evolve!Existing = {}
  <2>1. /\ prog' = [pc |-> "baseline", round |-> 0, last |-> last]
        /\ memory' = [config |-> {}, best |-> Evolve!NoMetrics, base |-> Evolve!NoMetrics]
    BY <1>6 DEF Evolve!Begin
  <2>2. Evolve!TypeOK'
    BY <1>1, <1>3, <2>1 DEF Evolve!TypeOK
  <2>3. FilesInv' /\ MemoryInv' /\ DraftInv'
    BY <1>1, <1>4, <1>6, <2>1 DEF FilesInv, MemoryInv, DraftInv
  <2>4. TightLoss'
    BY <1>1, <2>1, LossStays
  <2> QED
    BY <1>4, <2>2, <2>3, <2>4 DEF EvolveInv
<1>7. CASE Evolve!Existing # {}
  <2>1. /\ prog' = [pc |-> "loop", round |-> Evolve!NextRound, last |-> last]
        /\ memory' = [config |-> Evolve!Restored.config, best |-> Evolve!Restored.val, base |-> versions[0].val]
    BY <1>7 DEF Evolve!Begin
  <2>2. /\ Evolve!Restored.config = Evolve!KeptRounds /\ Evolve!Restored.val \in Metrics \cup {Evolve!NoMetrics}
        /\ \A v \in Evolve!Versions : Evolve!Kept(v) => AtMost(versions[v].val, Evolve!Restored.val)
    BY RestoredIsBest
  <2>3. versions[0].val \in Metrics \cup {Evolve!NoMetrics}
    BY <1>1, <1>5, VersionFields
  <2>4. Evolve!TypeOK'
    <3>1. memory' \in [config : SUBSET Evolve!Rounds, best : Metrics \cup {Evolve!NoMetrics}, base : Metrics \cup {Evolve!NoMetrics}]
      BY <1>5, <2>1, <2>2, <2>3
    <3> QED
      BY <1>1, <1>3, <2>1, <3>1 DEF Evolve!TypeOK
  <2>5. FilesInv'
    BY <1>1, <1>2, <1>4, <2>1 DEF FilesInv
  <2>6. MemoryInv'
    <3>1. \A v \in Evolve!Versions : Evolve!Kept(v)' => AtMost(versions'[v].val, memory'.best)
      BY <1>1, <1>4, <2>1, <2>2
    <3> QED
      BY <1>1, <1>4, <2>1, <2>2, <3>1 DEF MemoryInv
  <2>7. DraftInv'
    BY <2>1 DEF DraftInv
  <2>8. TightLoss'
    BY <1>1, <2>1, LossStays
  <2> QED
    BY <1>4, <2>4, <2>5, <2>6, <2>7, <2>8 DEF EvolveInv
<1> QED
  BY <1>6, <1>7

LEMMA BaselineKeeps ==
  ASSUME EvolveInv, NEW val \in Metrics, Evolve!Baseline(val)
  PROVE  EvolveInv'
<1>1. /\ Evolve!TypeOK /\ FilesInv /\ prog.pc = "baseline" /\ UNCHANGED <<versions, log, tail, crashes>>
      /\ memory' = [memory EXCEPT !.best = val, !.base = val]
      /\ draft' = Evolve!Record(memory.config, val, TRUE) /\ prog' = [prog EXCEPT !.pc = "write"]
  BY DEF EvolveInv, Evolve!Baseline
<1>2. Evolve!Existing = {} /\ prog.round = 0 /\ memory.config = {}
  BY <1>1 DEF FilesInv
<1>3. /\ draft' \in Evolve!Records /\ draft'.file = "whole" /\ draft'.config = {} /\ draft'.val = val
  BY <1>1, <1>2 DEF Evolve!Record, Evolve!Records
<1>4. /\ Evolve!CarriesWhatWasKept' /\ Evolve!KeptImproves' /\ Evolve!TurnoverIsAnchored' /\ Evolve!LoggedIsStored'
      /\ Evolve!Existing' = Evolve!Existing /\ Evolve!KeptRounds' = Evolve!KeptRounds
      /\ \A v \in Evolve!Versions : Evolve!Kept(v)' = Evolve!Kept(v) /\ Evolve!Whole(v)' = Evolve!Whole(v)
  BY <1>1, FilesStay
<1>5. Evolve!KeptRounds = {} /\ \A v \in Evolve!Versions : ~Evolve!Kept(v)
  BY <1>2, KeptAreThere
<1>6. /\ prog'.pc = "write" /\ prog'.round = 0 /\ memory'.best = val /\ memory'.base = val /\ memory'.config = {}
      /\ prog' \in [pc : {"off", "baseline", "loop", "write", "append", "score"},
                    round : 0..(MaxRound + 1), last : Evolve!Versions]
      /\ memory' \in [config : SUBSET Evolve!Rounds, best : Metrics \cup {Evolve!NoMetrics}, base : Metrics \cup {Evolve!NoMetrics}]
  BY <1>1, <1>2 DEF Evolve!TypeOK
<1>7. Evolve!TypeOK'
  BY <1>1, <1>3, <1>6, EvolveConstants DEF Evolve!TypeOK
<1>8. FilesInv'
  BY <1>1, <1>2, <1>3, <1>4, <1>6 DEF FilesInv
<1>9. MemoryInv' /\ DraftInv'
  BY <1>3, <1>4, <1>5, <1>6 DEF MemoryInv, DraftInv
<1>10. TightLoss'
  BY <1>1, <1>6, LossStays
<1> QED
  BY <1>4, <1>7, <1>8, <1>9, <1>10 DEF EvolveInv

LEMMA EvaluateKeeps ==
  ASSUME EvolveInv, NEW val \in Metrics, Evolve!Evaluate(val)
  PROVE  EvolveInv'
<1> DEFINE n == prog.round
<1>1. /\ Evolve!TypeOK /\ FilesInv /\ MemoryInv /\ prog.pc = "loop" /\ n <= prog.last /\ UNCHANGED <<versions, log, tail, crashes>>
      /\ memory' = Evolve!Adopted(val)
      /\ draft' = Evolve!Record(memory.config \cup {n}, val, Evolve!Keep(val)) /\ prog' = [prog EXCEPT !.pc = "write"]
  BY DEF EvolveInv, Evolve!Evaluate, Evolve!Round
<1>2. n \in Evolve!Rounds /\ n \in Evolve!Versions /\ n # 0 /\ n \in Nat
  BY <1>1, EvolveConstants, ProgFields DEF FilesInv, Evolve!Versions
<1>3. /\ memory.config = Evolve!KeptRounds /\ memory.base = versions[0].val
      /\ \A v \in Evolve!Versions : Evolve!Kept(v) => AtMost(versions[v].val, memory.best)
  BY <1>1 DEF MemoryInv
<1>4. /\ Evolve!CarriesWhatWasKept' /\ Evolve!KeptImproves' /\ Evolve!TurnoverIsAnchored' /\ Evolve!LoggedIsStored'
      /\ Evolve!Existing' = Evolve!Existing /\ Evolve!KeptRounds' = Evolve!KeptRounds
      /\ \A v \in Evolve!Versions : Evolve!Kept(v)' = Evolve!Kept(v) /\ Evolve!Whole(v)' = Evolve!Whole(v)
  BY <1>1, FilesStay
<1>5. memory.config \in SUBSET Evolve!Rounds /\ Evolve!Keep(val) \in BOOLEAN
  BY <1>1, ProgFields DEF Evolve!Keep, Evolve!Improves, Evolve!WithinCeiling, Evolve!WithinDrawdown
<1>6. draft' \in Evolve!Records /\ draft'.file = "whole" /\ draft'.val = val /\ draft'.kept = Evolve!Keep(val)
      /\ draft'.config = Evolve!KeptRounds \cup {n}
  <2> HIDE DEF n
  <2> QED
    BY <1>1, <1>2, <1>3, <1>5 DEF Evolve!Record, Evolve!Records
<1>7. /\ prog'.pc = "write" /\ prog'.round = n
      /\ prog' \in [pc : {"off", "baseline", "loop", "write", "append", "score"},
                    round : 0..(MaxRound + 1), last : Evolve!Versions]
  BY <1>1 DEF Evolve!TypeOK
<1>8. /\ memory'.base = memory.base
      /\ memory'.config = Evolve!KeptRounds \cup (IF Evolve!Keep(val) THEN {n} ELSE {})
      /\ memory'.best = IF Evolve!Keep(val) THEN val ELSE memory.best
      /\ memory' \in [config : SUBSET Evolve!Rounds, best : Metrics \cup {Evolve!NoMetrics}, base : Metrics \cup {Evolve!NoMetrics}]
  BY <1>1, <1>2, <1>3 DEF Evolve!Adopted, Evolve!TypeOK
<1>9. Evolve!TypeOK'
  BY <1>1, <1>2, <1>6, <1>7, <1>8 DEF Evolve!TypeOK
<1>10. FilesInv'
  BY <1>1, <1>4, <1>6, <1>7 DEF FilesInv
<1>11. Evolve!Keep(val) =>
         /\ val.sharpe # NoValue /\ val.turnover # NoValue
         /\ memory.best.sharpe # NoValue => val.sharpe > memory.best.sharpe
         /\ memory.base.turnover # NoValue => 2 * val.turnover <= 3 * memory.base.turnover
  BY DEF Evolve!Keep, Evolve!Improves, Evolve!WithinCeiling
<1>12. /\ val.sharpe \in Int \cup {NoValue} /\ memory.best.sharpe \in Int \cup {NoValue}
  BY <1>1, ProgFields, ScoreFields
<1>13. ASSUME Evolve!Keep(val), NEW v \in Evolve!Versions, Evolve!Kept(v), versions[v].val.sharpe # NoValue
       PROVE  val.sharpe > versions[v].val.sharpe
  <2>1. memory.best.sharpe # NoValue /\ versions[v].val.sharpe <= memory.best.sharpe
    BY <1>3, <1>13 DEF AtMost
  <2>2. versions[v].val.sharpe \in Int /\ memory.best.sharpe \in Int /\ val.sharpe \in Int
    BY <1>1, <1>11, <1>12, <1>13, <2>1, VersionFields
  <2> QED
    BY <1>11, <1>13, <2>1, <2>2
<1>14. ASSUME NEW v \in Evolve!Versions, Evolve!Kept(v)
       PROVE  AtMost(versions[v].val, memory'.best)
  <2>1. CASE Evolve!Keep(val)
    <3>1. SUFFICES ASSUME versions[v].val.sharpe # NoValue
                   PROVE  val.sharpe # NoValue /\ versions[v].val.sharpe <= val.sharpe
      BY <1>8, <2>1 DEF AtMost
    <3>2. val.sharpe > versions[v].val.sharpe /\ val.sharpe # NoValue
      BY <1>11, <1>13, <1>14, <2>1, <3>1
    <3>3. versions[v].val.sharpe \in Int /\ val.sharpe \in Int
      BY <1>1, <1>12, <3>1, <3>2, VersionFields
    <3> QED
      BY <3>2, <3>3
  <2>2. CASE ~Evolve!Keep(val)
    BY <1>3, <1>8, <1>14, <2>2
  <2> QED
    BY <2>1, <2>2
<1>15. MemoryInv'
  <2>1. \A v \in Evolve!Versions : Evolve!Kept(v)' => AtMost(versions'[v].val, memory'.best)
    BY <1>1, <1>4, <1>14
  <2> HIDE DEF n
  <2> QED
    BY <1>1, <1>2, <1>3, <1>4, <1>6, <1>7, <1>8, <2>1 DEF MemoryInv
<1>16. DraftInv'
  <2>1. \A v \in Evolve!Versions : Evolve!Kept(v)' /\ versions'[v].val.sharpe # NoValue /\ Evolve!Keep(val) => val.sharpe > versions'[v].val.sharpe
    BY <1>1, <1>4, <1>13
  <2> HIDE DEF n
  <2> QED
    BY <1>2, <1>3, <1>4, <1>6, <1>7, <1>8, <1>11, <2>1 DEF DraftInv
<1>17. TightLoss'
  BY <1>1, <1>7, LossStays
<1> QED
  BY <1>4, <1>9, <1>10, <1>15, <1>16, <1>17 DEF EvolveInv

LEMMA SkipKeeps ==
  ASSUME EvolveInv, Evolve!Skip
  PROVE  EvolveInv'
<1>1. /\ Evolve!TypeOK /\ FilesInv /\ MemoryInv /\ prog.pc = "loop" /\ prog.round <= prog.last
      /\ UNCHANGED <<memory, draft, versions, log, tail, crashes>> /\ prog' = [prog EXCEPT !.round = @ + 1]
  BY DEF EvolveInv, Evolve!Skip, Evolve!Round
<1>2. prog.round \in Nat /\ prog.last \in Nat /\ prog.last <= MaxRound /\ MaxRound \in Nat
  BY <1>1, EvolveConstants, ProgFields DEF Evolve!Versions
<1>3. prog.round + 1 \in 0..(MaxRound + 1) /\ prog.round + 1 # 0
  BY <1>1, <1>2
<1>4. /\ prog'.pc = "loop" /\ prog'.round = prog.round + 1
      /\ prog' \in [pc : {"off", "baseline", "loop", "write", "append", "score"},
                    round : 0..(MaxRound + 1), last : Evolve!Versions]
  BY <1>1, <1>3 DEF Evolve!TypeOK
<1>5. /\ Evolve!CarriesWhatWasKept' /\ Evolve!KeptImproves' /\ Evolve!TurnoverIsAnchored' /\ Evolve!LoggedIsStored'
      /\ Evolve!Existing' = Evolve!Existing /\ Evolve!KeptRounds' = Evolve!KeptRounds
      /\ \A v \in Evolve!Versions : Evolve!Kept(v)' = Evolve!Kept(v) /\ Evolve!Whole(v)' = Evolve!Whole(v)
  BY <1>1, FilesStay
<1>6. Evolve!TypeOK'
  BY <1>1, <1>4 DEF Evolve!TypeOK
<1>7. \A v \in Evolve!Existing : v < prog.round + 1
  <2>1. \A v \in Evolve!Existing : v < prog.round /\ v \in Nat
    BY <1>1, KeptAreThere DEF FilesInv
  <2> QED
    BY <1>2, <2>1
<1>8. FilesInv'
  BY <1>1, <1>3, <1>4, <1>5, <1>7 DEF FilesInv
<1>9. MemoryInv' /\ DraftInv'
  BY <1>1, <1>4, <1>5 DEF MemoryInv, DraftInv
<1>10. TightLoss'
  BY <1>1, <1>4, LossStays
<1> QED
  BY <1>5, <1>6, <1>8, <1>9, <1>10 DEF EvolveInv

LEMMA UnloggedAreFew == IsFiniteSet(Evolve!Unlogged) /\ Cardinality(Evolve!Unlogged) \in Nat
<1>1. Evolve!Unlogged \subseteq Evolve!Versions
  BY DEF Evolve!Unlogged
<1> QED
  BY <1>1, EvolveConstants, FS_Subset, FS_CardinalityType

\* A set that grows by one element, or by two.
LEMMA GrowsByOne ==
  ASSUME NEW U, IsFiniteSet(U), NEW x, NEW W, W \subseteq U \cup {x}
  PROVE  Cardinality(W) <= Cardinality(U) + 1
<1>1. /\ IsFiniteSet(U \cup {x}) /\ Cardinality(U \cup {x}) <= Cardinality(U) + 1
      /\ Cardinality(U) \in Nat
  <2>1. Cardinality(U) \in Nat
    BY FS_CardinalityType
  <2>2. IsFiniteSet(U \cup {x}) /\ Cardinality(U \cup {x}) = IF x \in U THEN Cardinality(U) ELSE Cardinality(U) + 1
    BY FS_AddElement
  <2> QED
    BY <2>1, <2>2
<1>2. Cardinality(W) <= Cardinality(U \cup {x}) /\ IsFiniteSet(W)
  BY <1>1, FS_Subset
<1> QED
  BY <1>1, <1>2, FS_CardinalityType

LEMMA GrowsByTwo ==
  ASSUME NEW U, IsFiniteSet(U), NEW x, NEW y, NEW W, W \subseteq U \cup {x, y}
  PROVE  Cardinality(W) <= Cardinality(U) + 2
<1>1. /\ IsFiniteSet(U \cup {x}) /\ Cardinality(U \cup {x}) <= Cardinality(U) + 1
      /\ Cardinality(U) \in Nat
  BY FS_AddElement, FS_CardinalityType
<1>2. W \subseteq (U \cup {x}) \cup {y}
  OBVIOUS
<1>3. IsFiniteSet(W) /\ Cardinality(W) <= Cardinality(U \cup {x}) + 1
  <2>1. Cardinality(W) <= Cardinality(U \cup {x}) + 1
    BY <1>1, <1>2, GrowsByOne
  <2>2. IsFiniteSet(U \cup {x, y})
    <3>1. IsFiniteSet((U \cup {x}) \cup {y}) /\ (U \cup {x}) \cup {y} = U \cup {x, y}
      BY <1>1, FS_AddElement
    <3> QED
      BY <3>1
  <2> QED
    BY <2>1, <2>2, FS_Subset
<1> QED
  BY <1>1, <1>3, FS_CardinalityType

\* An invocation that ends, or is cut off, between two writes.
LEMMA EndKeeps ==
  ASSUME EvolveInv, Evolve!Finish \/ Evolve!Score \/ Evolve!Crash
  PROVE  EvolveInv'
<1>1. /\ Evolve!TypeOK /\ FilesInv /\ UNCHANGED <<memory, draft, versions, log, tail>>
      /\ prog'.pc = "off" \/ prog'.pc = "score"
      /\ prog' \in [pc : {"off", "baseline", "loop", "write", "append", "score"},
                    round : 0..(MaxRound + 1), last : Evolve!Versions]
      /\ crashes' \in 0..MaxCrashes
  <2>1. CASE Evolve!Finish
    BY <2>1 DEF EvolveInv, Evolve!TypeOK, Evolve!Finish
  <2>2. CASE Evolve!Score
    BY <2>2 DEF EvolveInv, Evolve!TypeOK, Evolve!Score
  <2>3. CASE Evolve!Crash
    <3>1. crashes \in 0..MaxCrashes /\ crashes < MaxCrashes /\ crashes' = crashes + 1 /\ MaxCrashes \in Nat
      BY <2>3, StrategiesAssumption DEF EvolveInv, Evolve!TypeOK, Evolve!Crash, Evolve!Dies, Evolve!EvolveAssumption
    <3>2. crashes' \in 0..MaxCrashes
      BY <3>1
    <3> QED
      BY <2>3, <3>2 DEF EvolveInv, Evolve!TypeOK, Evolve!Crash, Evolve!Dies
  <2> QED
    BY <2>1, <2>2, <2>3
<1>2. /\ Evolve!CarriesWhatWasKept' /\ Evolve!KeptImproves' /\ Evolve!TurnoverIsAnchored' /\ Evolve!LoggedIsStored'
      /\ Evolve!Existing' = Evolve!Existing /\ Evolve!KeptRounds' = Evolve!KeptRounds
      /\ \A v \in Evolve!Versions : Evolve!Kept(v)' = Evolve!Kept(v) /\ Evolve!Whole(v)' = Evolve!Whole(v)
  BY <1>1, FilesStay
<1>3. Evolve!TypeOK'
  BY <1>1 DEF Evolve!TypeOK
<1>4. FilesInv' /\ MemoryInv' /\ DraftInv'
  BY <1>1, <1>2 DEF FilesInv, MemoryInv, DraftInv
<1>5. TightLoss'
  <2>1. CASE Evolve!Finish \/ Evolve!Score
    BY <1>1, <2>1, LossStays DEF Evolve!Finish, Evolve!Score
  <2>2. CASE Evolve!Crash
    <3>1. crashes' = crashes + 1 /\ Evolve!Unlogged' \subseteq Evolve!Unlogged \cup {prog.round}
      BY <1>1, <2>2 DEF Evolve!Crash, Evolve!Dies, Evolve!Unlogged, Evolve!Whole
    <3>2. Cardinality(Evolve!Unlogged') <= Cardinality(Evolve!Unlogged) + 1
      BY <3>1, UnloggedAreFew, GrowsByOne
    <3>3. Cardinality(Evolve!Unlogged') \in Nat
      <4>1. Evolve!Unlogged' \subseteq Evolve!Versions
        BY DEF Evolve!Unlogged
      <4> QED
        BY <4>1, EvolveConstants, FS_Subset, FS_CardinalityType
    <3>4. crashes \in Nat
      BY <1>1, ProgFields
    <3> DEFINE lost == Cardinality(Evolve!Unlogged)
               losing == Cardinality(Evolve!Unlogged')
               open == Unfinished
    <3>5. lost \in Nat /\ losing \in Nat /\ losing <= lost + 1 /\ open \in Nat /\ lost <= 2 * crashes - open
      BY <3>2, <3>3, UnloggedAreFew DEF EvolveInv, TightLoss, Unfinished
    <3>6. Unfinished' = open
      BY <1>1 DEF Unfinished
    <3> HIDE DEF lost, losing, open
    <3>7. losing <= 2 * (crashes + 1) - open
      BY <3>4, <3>5
    <3> QED
      BY <3>1, <3>6, <3>7 DEF losing, TightLoss
  <2> QED
    BY <2>1, <2>2
<1> QED
  BY <1>2, <1>3, <1>4, <1>5 DEF EvolveInv

\* The file of the round becomes a record, or half of one; before, it was not there.
LEMMA RoundIsNew ==
  ASSUME EvolveInv, prog.pc = "write"
  PROVE  /\ prog.round \in Evolve!Versions /\ prog.round \in Nat /\ prog.round \notin Evolve!Existing
         /\ ~Evolve!Whole(prog.round) /\ ~Evolve!Kept(prog.round) /\ prog.round \notin Evolve!KeptRounds
         /\ \A v \in Evolve!Existing : v < prog.round /\ v \in Nat
         /\ \A i \in DOMAIN log : log[i].v # prog.round
         /\ \A r \in Evolve!KeptRounds : r < prog.round
         /\ draft.file = "whole"
<1>1. Evolve!TypeOK /\ FilesInv /\ Evolve!LoggedIsStored
  BY DEF EvolveInv
<1>2. prog.round \in Evolve!Versions /\ prog.round \in Nat
  BY <1>1, ProgFields
<1>3. (\A v \in Evolve!Existing : v < prog.round /\ v \in Nat) /\ draft.file = "whole"
  BY <1>1, KeptAreThere DEF FilesInv
<1>4. prog.round \notin Evolve!Existing
  BY <1>2, <1>3
<1>5. ~Evolve!Whole(prog.round) /\ ~Evolve!Kept(prog.round) /\ prog.round \notin Evolve!KeptRounds
  BY <1>2, <1>4, KeptAreThere
<1>6. \A r \in Evolve!KeptRounds : r < prog.round
  BY <1>3, KeptAreThere
<1> QED
  BY <1>1, <1>2, <1>3, <1>4, <1>5, <1>6 DEF Evolve!LoggedIsStored

LEMMA WriteKeeps ==
  ASSUME EvolveInv, Evolve!Write
  PROVE  EvolveInv'
<1> DEFINE n == prog.round
<1>1. /\ Evolve!TypeOK /\ FilesInv /\ MemoryInv /\ DraftInv /\ prog.pc = "write"
      /\ UNCHANGED <<memory, draft, log, tail, crashes>>
      /\ versions' = [versions EXCEPT ![n] = draft] /\ prog' = [prog EXCEPT !.pc = "append"]
  BY DEF EvolveInv, Evolve!Write
<1>2. /\ n \in Evolve!Versions /\ n \in Nat /\ n \notin Evolve!Existing
      /\ ~Evolve!Whole(n) /\ ~Evolve!Kept(n) /\ n \notin Evolve!KeptRounds
      /\ \A v \in Evolve!Existing : v < n /\ v \in Nat
      /\ \A i \in DOMAIN log : log[i].v # n
      /\ \A r \in Evolve!KeptRounds : r < n
      /\ draft.file = "whole" /\ draft \in Evolve!Records /\ draft.kept \in BOOLEAN
  BY <1>1, RoundIsNew, ProgFields
<1>3. prog'.pc = "append" /\ prog'.round = n
      /\ prog' \in [pc : {"off", "baseline", "loop", "write", "append", "score"},
                    round : 0..(MaxRound + 1), last : Evolve!Versions]
  BY <1>1 DEF Evolve!TypeOK
<1> HIDE DEF n
<1>4. versions' \in [Evolve!Versions -> Evolve!Records] /\ \A v \in Evolve!Versions : versions'[v] = IF v = n THEN draft ELSE versions[v]
  BY <1>1, <1>2 DEF Evolve!TypeOK
<1>5. Evolve!TypeOK'
  BY <1>1, <1>2, <1>3, <1>4 DEF Evolve!TypeOK
<1>6. /\ \A v \in Evolve!Versions : Evolve!Whole(v)' = (Evolve!Whole(v) \/ v = n)
      /\ \A v \in Evolve!Versions : Evolve!Kept(v)' = (Evolve!Kept(v) \/ (v = n /\ draft.kept))
  BY <1>2, <1>4 DEF Evolve!Whole, Evolve!Kept
<1>7. Evolve!KeptRounds' = Evolve!KeptRounds \cup (IF draft.kept /\ n # 0 THEN {n} ELSE {})
  BY <1>2, <1>6, EvolveConstants DEF Evolve!KeptRounds
<1>8. Evolve!Existing' = Evolve!Existing \cup {n}
  BY <1>2, <1>4 DEF Evolve!Existing
<1>9. FilesInv'
  <2>1. \A v \in Evolve!Existing' : v <= n
    BY <1>2, <1>8
  <2>2. \A v \in Evolve!Versions : ~Evolve!Whole(v)' => versions'[v].config = {} /\ versions'[v].val = Evolve!NoMetrics /\ ~versions'[v].kept
    BY <1>1, <1>4, <1>6 DEF FilesInv
  <2> QED
    BY <1>1, <1>2, <1>3, <1>4, <2>1, <2>2 DEF FilesInv
<1>10. MemoryInv'
  <2>1. ASSUME NEW v \in Evolve!Versions, Evolve!Kept(v)'
        PROVE  AtMost(versions'[v].val, memory.best)
    <3>1. CASE v = n
      <4>1. draft.kept /\ draft.val = memory.best
        BY <1>1, <1>2, <1>6, <2>1, <3>1 DEF DraftInv
      <4>2. memory.best.sharpe \in Int \cup {NoValue}
        BY <1>1, ProgFields, ScoreFields
      <4> QED
        BY <1>4, <3>1, <4>1, <4>2, EvolveConstants DEF AtMost
    <3>2. CASE v # n
      BY <1>1, <1>4, <1>6, <2>1, <3>2 DEF MemoryInv
    <3> QED
      BY <3>1, <3>2
  <2>2. memory.base = versions'[0].val
    BY <1>1, <1>4, EvolveConstants DEF MemoryInv, n
  <2>3. memory.config = Evolve!KeptRounds'
    BY <1>1, <1>7 DEF MemoryInv, n
  <2> QED
    BY <1>1, <1>3, <2>1, <2>2, <2>3 DEF MemoryInv
<1>11. DraftInv'
  BY <1>3 DEF DraftInv
<1>12. Evolve!CarriesWhatWasKept'
  <2>1. ASSUME NEW v \in Evolve!Versions, Evolve!Whole(v)'
        PROVE  versions'[v].config = {r \in Evolve!KeptRounds' : r < v} \cup (IF v = 0 THEN {} ELSE {v})
    <3>1. CASE v = n
      <4>1. draft.config = Evolve!KeptRounds \cup (IF n = 0 THEN {} ELSE {n})
        BY <1>1 DEF DraftInv, n
      <4>2. {r \in Evolve!KeptRounds' : r < n} = Evolve!KeptRounds
        BY <1>2, <1>7
      <4> QED
        BY <1>4, <3>1, <4>1, <4>2
    <3>2. CASE v # n
      <4>1. Evolve!Whole(v) /\ v < n /\ v \in Nat
        BY <1>2, <1>6, <2>1, <3>2, KeptAreThere
      <4>2. {r \in Evolve!KeptRounds' : r < v} = {r \in Evolve!KeptRounds : r < v}
        <5>1. ~(n < v)
          BY <1>2, <4>1
        <5> QED
          BY <1>7, <5>1
      <4> QED
        BY <1>4, <3>2, <4>1, <4>2 DEF EvolveInv, Evolve!CarriesWhatWasKept
    <3> QED
      BY <3>1, <3>2
  <2> QED
    BY <2>1 DEF Evolve!CarriesWhatWasKept
<1>13. Evolve!KeptImproves'
  <2>1. ASSUME NEW s \in Evolve!KeptRounds', NEW r \in Evolve!Versions, Evolve!Kept(r)', r < s
        PROVE  /\ versions'[s].val.sharpe # NoValue
               /\ versions'[r].val.sharpe # NoValue => versions'[s].val.sharpe > versions'[r].val.sharpe
    <3>1. s \in Evolve!Versions /\ s \in Nat /\ (s = n \/ s < n) /\ r \in Nat
      BY <1>2, <1>7, EvolveConstants DEF Evolve!KeptRounds
    <3>2. r # n
      BY <1>2, <2>1, <3>1
    <3>3. Evolve!Kept(r) /\ versions'[r] = versions[r]
      BY <1>4, <1>6, <2>1, <3>2
    <3>4. CASE s = n
      <4>1. draft.kept /\ n # 0
        BY <1>2, <1>7, <2>1, <3>4
      <4> QED
        BY <1>1, <1>4, <3>1, <3>3, <3>4, <4>1 DEF DraftInv, n
    <3>5. CASE s # n
      <4>1. s \in Evolve!KeptRounds /\ versions'[s] = versions[s]
        BY <1>4, <1>7, <2>1, <3>1, <3>5
      <4> QED
        BY <2>1, <3>3, <4>1 DEF EvolveInv, Evolve!KeptImproves
    <3> QED
      BY <3>4, <3>5
  <2>2. \A s \in Evolve!KeptRounds' : \A r \in {v \in Evolve!Versions : Evolve!Kept(v)' /\ v < s} :
          /\ versions'[s].val.sharpe # NoValue
          /\ versions'[r].val.sharpe # NoValue => versions'[s].val.sharpe > versions'[r].val.sharpe
    BY <2>1
  <2> QED
    BY <2>2 DEF Evolve!KeptImproves
<1>14. Evolve!TurnoverIsAnchored'
  <2>1. SUFFICES ASSUME Evolve!Whole(0)', versions'[0].val.turnover # NoValue, NEW r \in Evolve!KeptRounds'
                 PROVE  2 * versions'[r].val.turnover <= 3 * versions'[0].val.turnover
    BY DEF Evolve!TurnoverIsAnchored
  <2>2. n # 0
    <3>1. SUFFICES ASSUME n = 0 PROVE FALSE
      OBVIOUS
    <3>2. r \in Evolve!KeptRounds
      BY <1>7, <3>1
    <3>3. r < 0 /\ r \in Nat
      BY <1>2, <3>1, <3>2, KeptAreThere, EvolveConstants
    <3> QED
      BY <3>3
  <2>3. versions'[0] = versions[0] /\ Evolve!Whole(0) /\ memory.base = versions[0].val
    BY <1>1, <1>4, <1>6, <2>1, <2>2, EvolveConstants DEF MemoryInv, n
  <2>4. CASE r = n
    <3>1. draft.kept
      BY <1>2, <1>7, <2>4
    <3> QED
      BY <1>1, <1>2, <1>4, <2>1, <2>2, <2>3, <2>4, <3>1 DEF DraftInv, n
  <2>5. CASE r # n
    <3>1. r \in Evolve!KeptRounds /\ r \in Evolve!Versions
      BY <1>7, <2>5, EvolveConstants DEF Evolve!KeptRounds
    <3> QED
      BY <1>4, <2>1, <2>3, <2>5, <3>1 DEF EvolveInv, Evolve!TurnoverIsAnchored
  <2> QED
    BY <2>4, <2>5
<1>15. Evolve!LoggedIsStored'
  <2>1. ASSUME NEW i \in DOMAIN log
        PROVE  versions'[log[i].v] = versions[log[i].v]
    <3>1. log[i].v # n
      BY <1>2
    <3>2. log[i].v \in Evolve!Versions
      BY <1>1, LogFields
    <3> QED
      BY <1>4, <3>1, <3>2
  <2> QED
    BY <1>1, <2>1 DEF EvolveInv, Evolve!LoggedIsStored, Evolve!Whole
<1>16. TightLoss'
  <2>1. Evolve!Unlogged = {v \in Evolve!Versions : Evolve!Whole(v) /\ \A i \in DOMAIN log : log[i].v # v}
    BY <1>1 DEF Evolve!Unlogged
  <2>2. Evolve!Unlogged' = {v \in Evolve!Versions : Evolve!Whole(v)' /\ \A i \in DOMAIN log : log[i].v # v} \ {n}
    BY <1>1, <1>3 DEF Evolve!Unlogged
  <2>3. Evolve!Unlogged' = Evolve!Unlogged
    BY <1>2, <1>6, <2>1, <2>2
  <2> QED
    BY <1>1, <2>3 DEF EvolveInv, TightLoss, Unfinished
<1> QED
  BY <1>5, <1>9, <1>10, <1>11, <1>12, <1>13, <1>14, <1>15, <1>16 DEF EvolveInv

LEMMA CrashInWriteKeeps ==
  ASSUME EvolveInv, Evolve!CrashInWrite
  PROVE  EvolveInv'
<1> DEFINE n == prog.round
<1>1. /\ Evolve!TypeOK /\ FilesInv /\ prog.pc = "write" /\ crashes' = crashes + 1 /\ crashes < MaxCrashes
      /\ UNCHANGED <<memory, draft, log, tail>>
      /\ versions' = [versions EXCEPT ![n] = Evolve!Partial] /\ prog' = [prog EXCEPT !.pc = "off"]
  BY DEF EvolveInv, Evolve!CrashInWrite, Evolve!Dies
<1>2. n \in Evolve!Versions /\ ~Evolve!Whole(n) /\ ~Evolve!Kept(n)
  BY <1>1, RoundIsNew
<1>3. prog'.pc = "off"
      /\ prog' \in [pc : {"off", "baseline", "loop", "write", "append", "score"},
                    round : 0..(MaxRound + 1), last : Evolve!Versions]
  BY <1>1 DEF Evolve!TypeOK
<1> HIDE DEF n
<1>4. Evolve!Partial \in Evolve!Records /\ Evolve!Partial.file = "partial" /\ Evolve!Partial.config = {} /\ Evolve!Partial.val = Evolve!NoMetrics /\ Evolve!Partial.kept = FALSE
  BY DEF Evolve!Partial, Evolve!Absent, Evolve!Records
<1>5. versions' \in [Evolve!Versions -> Evolve!Records] /\ \A v \in Evolve!Versions : versions'[v] = IF v = n THEN Evolve!Partial ELSE versions[v]
  BY <1>1, <1>2, <1>4 DEF Evolve!TypeOK
<1>6. crashes \in Nat /\ crashes' \in 0..MaxCrashes
  <2>1. crashes \in Nat /\ MaxCrashes \in Nat
    BY <1>1, ProgFields, StrategiesAssumption DEF Evolve!EvolveAssumption
  <2> QED
    BY <1>1, <2>1
<1>7. Evolve!TypeOK'
  BY <1>1, <1>3, <1>5, <1>6 DEF Evolve!TypeOK
<1>8. \A v \in Evolve!Versions : Evolve!Whole(v)' = Evolve!Whole(v) /\ Evolve!Kept(v)' = Evolve!Kept(v)
  BY <1>2, <1>4, <1>5 DEF Evolve!Whole, Evolve!Kept
<1>9. Evolve!KeptRounds' = Evolve!KeptRounds
  BY <1>8, EvolveConstants DEF Evolve!KeptRounds
<1>10. \A v \in Evolve!Versions : Evolve!Whole(v) => versions'[v] = versions[v]
  BY <1>2, <1>5
<1>11. FilesInv'
  <2>1. \A v \in Evolve!Versions : ~Evolve!Whole(v)' => versions'[v].config = {} /\ versions'[v].val = Evolve!NoMetrics /\ ~versions'[v].kept
    BY <1>1, <1>4, <1>5, <1>8 DEF FilesInv
  <2> QED
    BY <1>1, <1>3, <2>1 DEF FilesInv
<1>12. MemoryInv' /\ DraftInv'
  BY <1>3 DEF MemoryInv, DraftInv
<1>13. Evolve!CarriesWhatWasKept'
  BY <1>8, <1>9, <1>10 DEF EvolveInv, Evolve!CarriesWhatWasKept
<1>14. Evolve!KeptImproves'
  <2>1. \A v \in Evolve!Versions : Evolve!Kept(v) => versions'[v] = versions[v]
    BY <1>10, KeptAreThere
  <2>2. \A s \in Evolve!KeptRounds : s \in Evolve!Versions /\ Evolve!Kept(s)
    BY KeptAreThere
  <2>3. \A s \in Evolve!KeptRounds' : \A r \in {v \in Evolve!Versions : Evolve!Kept(v)' /\ v < s} :
          /\ versions'[s].val.sharpe # NoValue
          /\ versions'[r].val.sharpe # NoValue => versions'[s].val.sharpe > versions'[r].val.sharpe
    BY <1>8, <1>9, <2>1, <2>2 DEF EvolveInv, Evolve!KeptImproves
  <2> QED
    BY <2>3 DEF Evolve!KeptImproves
<1>15. Evolve!TurnoverIsAnchored'
  <2>1. \A s \in Evolve!KeptRounds : s \in Evolve!Versions /\ Evolve!Whole(s)
    BY KeptAreThere
  <2> QED
    BY <1>8, <1>9, <1>10, <2>1, EvolveConstants DEF EvolveInv, Evolve!TurnoverIsAnchored
<1>16. Evolve!LoggedIsStored'
  <2>1. ASSUME NEW i \in DOMAIN log
        PROVE  versions'[log[i].v] = versions[log[i].v]
    <3>1. Evolve!Whole(log[i].v)
      BY DEF EvolveInv, Evolve!LoggedIsStored
    <3>2. log[i].v \in Evolve!Versions
      BY <1>1, LogFields
    <3> QED
      BY <1>10, <3>1, <3>2
  <2> QED
    BY <1>1, <2>1 DEF EvolveInv, Evolve!LoggedIsStored, Evolve!Whole
<1>17. TightLoss'
  <2>1. Evolve!Unlogged' = Evolve!Unlogged
    BY <1>1, <1>3, <1>8 DEF Evolve!Unlogged
  <2> DEFINE lost == Cardinality(Evolve!Unlogged)
             open == Unfinished
  <2>2. lost \in Nat /\ open \in Nat /\ lost <= 2 * crashes - open
    BY UnloggedAreFew DEF EvolveInv, TightLoss, Unfinished
  <2>3. Unfinished' = open /\ Cardinality(Evolve!Unlogged') = lost
    BY <1>1, <2>1 DEF Unfinished
  <2> HIDE DEF lost, open
  <2>4. lost <= 2 * (crashes + 1) - open
    BY <1>6, <2>2
  <2> QED
    BY <1>1, <2>3, <2>4 DEF TightLoss
<1> QED
  BY <1>7, <1>11, <1>12, <1>13, <1>14, <1>15, <1>16, <1>17 DEF EvolveInv

\* The round of an entry that is appended is after all that are logged.
LEMMA RoundIsLast ==
  ASSUME EvolveInv, prog.pc = "append"
  PROVE  /\ prog.round \in Evolve!Versions /\ prog.round \in Nat /\ Evolve!Whole(prog.round)
         /\ versions[prog.round] = draft
         /\ \A v \in Evolve!Existing : v <= prog.round /\ v \in Nat
         /\ \A i \in DOMAIN log : log[i].v < prog.round /\ log[i].v \in Nat
         /\ Evolve!Entry \in [v : Evolve!Versions, kept : BOOLEAN] /\ Evolve!Entry.v = prog.round /\ Evolve!Entry.kept = draft.kept
<1>1. Evolve!TypeOK /\ FilesInv /\ Evolve!LoggedIsStored
  BY DEF EvolveInv
<1>2. prog.round \in Evolve!Versions /\ prog.round \in Nat /\ draft.kept \in BOOLEAN
  BY <1>1, ProgFields
<1>3. versions[prog.round] = draft /\ draft.file = "whole" /\ \A v \in Evolve!Existing : v <= prog.round /\ v \in Nat
  BY <1>1, KeptAreThere DEF FilesInv
<1>4. ASSUME NEW i \in DOMAIN log
      PROVE  log[i].v < prog.round /\ log[i].v \in Nat
  <2>1. log[i].v \in Evolve!Versions /\ Evolve!Whole(log[i].v) /\ log[i].v # prog.round
    BY <1>1, LogFields DEF Evolve!LoggedIsStored, FilesInv
  <2>2. log[i].v \in Evolve!Existing
    BY <2>1, KeptAreThere
  <2> QED
    BY <1>2, <1>3, <2>1, <2>2
<1> QED
  BY <1>2, <1>3, <1>4 DEF Evolve!Whole, Evolve!Entry

\* A line is appended: nothing is lost.
LEMMA LineAppended ==
  ASSUME EvolveInv, prog.pc = "append", prog'.pc # "append", versions' = versions, log' = Append(log, Evolve!Entry)
  PROVE  /\ log' \in Seq([v : Evolve!Versions, kept : BOOLEAN]) /\ Evolve!LoggedIsStored' /\ log' # <<>>
         /\ Evolve!Unlogged' \subseteq Evolve!Unlogged
<1> DEFINE S == [v : Evolve!Versions, kept : BOOLEAN]
           n == prog.round
<1>1. log \in Seq(S) /\ Evolve!Entry \in S
  BY RoundIsLast DEF EvolveInv, Evolve!TypeOK
<1>2. /\ n \in Evolve!Versions /\ n \in Nat /\ Evolve!Whole(n) /\ versions[n] = draft /\ Evolve!Entry.v = n /\ Evolve!Entry.kept = draft.kept
      /\ \A i \in DOMAIN log : log[i].v < n /\ log[i].v \in Nat
  BY RoundIsLast
<1>3. Evolve!Unlogged = {v \in Evolve!Versions : Evolve!Whole(v) /\ \A i \in DOMAIN log : log[i].v # v} \ {n}
  BY DEF Evolve!Unlogged
<1> HIDE DEF S, n
<1>4. /\ log' \in Seq(S) /\ Len(log) \in Nat
      /\ DOMAIN log = 1..Len(log) /\ DOMAIN log' = 1..(Len(log) + 1)
      /\ \A i \in DOMAIN log : log'[i] = log[i]
      /\ log'[Len(log) + 1] = Evolve!Entry
  BY <1>1, Appended
<1>5. /\ \A i \in DOMAIN log' : i \in DOMAIN log \/ i = Len(log) + 1
      /\ DOMAIN log \subseteq DOMAIN log' /\ Len(log) + 1 \in DOMAIN log' /\ Len(log) + 1 \notin DOMAIN log
      /\ \A i \in DOMAIN log : i < Len(log) + 1 /\ i \in Nat
  BY <1>4
<1>6. Evolve!LoggedIsStored'
  <2>1. /\ \A i \in DOMAIN log : versions[log[i].v].file = "whole" /\ versions[log[i].v].kept = log[i].kept
        /\ \A i, j \in DOMAIN log : i < j => log[i].v < log[j].v
    BY DEF EvolveInv, Evolve!LoggedIsStored, Evolve!Whole
  <2>2. \A i \in DOMAIN log' : versions'[log'[i].v].file = "whole" /\ versions'[log'[i].v].kept = log'[i].kept
    BY <1>2, <1>4, <1>5, <2>1 DEF Evolve!Whole
  <2>3. ASSUME NEW i \in DOMAIN log', NEW j \in DOMAIN log', i < j
        PROVE  log'[i].v < log'[j].v
    <3>1. i \in DOMAIN log
      BY <1>4, <2>3
    <3>2. CASE j \in DOMAIN log
      BY <1>4, <2>1, <2>3, <3>1, <3>2
    <3>3. CASE j = Len(log) + 1
      BY <1>2, <1>4, <3>1, <3>3
    <3> QED
      BY <1>5, <3>2, <3>3
  <2> QED
    BY <2>2, <2>3 DEF Evolve!LoggedIsStored, Evolve!Whole
<1>7. Evolve!Unlogged' \subseteq Evolve!Unlogged
  <2>1. Evolve!Unlogged' = {v \in Evolve!Versions : Evolve!Whole(v) /\ \A i \in DOMAIN log' : log'[i].v # v}
    BY DEF Evolve!Unlogged, Evolve!Whole
  <2>2. ASSUME NEW v \in Evolve!Unlogged'
        PROVE  v \in Evolve!Unlogged
    <3>1. v \in Evolve!Versions /\ Evolve!Whole(v) /\ \A i \in DOMAIN log' : log'[i].v # v
      BY <2>1
    <3>2. v # n
      BY <1>2, <1>4, <1>5, <3>1
    <3>3. \A i \in DOMAIN log : log[i].v # v
      BY <1>4, <1>5, <3>1
    <3> QED
      BY <1>3, <3>1, <3>2, <3>3
  <2> QED
    BY <2>2
<1> QED
  BY <1>4, <1>5, <1>6, <1>7 DEF S

\* A line is joined to an unfinished one: both are lost.
LEMMA LineJoined ==
  ASSUME EvolveInv, prog.pc = "append", prog'.pc # "append", versions' = versions, log' = Evolve!Joined
  PROVE  /\ log' \in Seq([v : Evolve!Versions, kept : BOOLEAN]) /\ Evolve!LoggedIsStored'
         /\ Evolve!Unlogged' \subseteq Evolve!Unlogged \cup (IF tail = "bare" THEN {prog.round, log[Len(log)].v} ELSE {prog.round})
<1> DEFINE S == [v : Evolve!Versions, kept : BOOLEAN]
           n == prog.round
<1>1. log \in Seq(S)
  BY DEF EvolveInv, Evolve!TypeOK
<1>2. Evolve!Unlogged = {v \in Evolve!Versions : Evolve!Whole(v) /\ \A i \in DOMAIN log : log[i].v # v} \ {n}
  BY DEF Evolve!Unlogged
<1>3. Evolve!Unlogged' = {v \in Evolve!Versions : Evolve!Whole(v) /\ \A i \in DOMAIN log' : log'[i].v # v}
  BY DEF Evolve!Unlogged, Evolve!Whole
<1> HIDE DEF S, n
<1>4. /\ log' \in Seq(S) /\ DOMAIN log' \subseteq DOMAIN log
      /\ \A i \in DOMAIN log' : log'[i] = log[i]
      /\ \A i \in DOMAIN log : i \in DOMAIN log' \/ (tail = "bare" /\ i = Len(log))
  <2>1. CASE tail = "bare"
    <3>1. log' = SubSeq(log, 1, Len(log) - 1) /\ log # <<>>
      BY <2>1 DEF Evolve!Joined, EvolveInv, FilesInv
    <3>2. /\ SubSeq(log, 1, Len(log) - 1) \in Seq(S) /\ DOMAIN log = 1..Len(log) /\ Len(log) \in Nat
          /\ DOMAIN SubSeq(log, 1, Len(log) - 1) = 1..(Len(log) - 1)
          /\ \A i \in 1..(Len(log) - 1) : SubSeq(log, 1, Len(log) - 1)[i] = log[i]
      BY <1>1, <3>1
    <3> QED
      BY <2>1, <3>1, <3>2
  <2>2. CASE tail # "bare"
    BY <1>1, <2>2 DEF Evolve!Joined
  <2> QED
    BY <2>1, <2>2
<1>5. Evolve!LoggedIsStored'
  BY <1>4 DEF EvolveInv, Evolve!LoggedIsStored, Evolve!Whole
<1>6. ASSUME NEW v \in Evolve!Unlogged'
      PROVE  v \in Evolve!Unlogged \cup (IF tail = "bare" THEN {n, log[Len(log)].v} ELSE {n})
  <2>1. v \in Evolve!Versions /\ Evolve!Whole(v) /\ \A i \in DOMAIN log' : log'[i].v # v
    BY <1>3
  <2>2. CASE v = n
    BY <2>2
  <2>3. CASE v # n /\ \A i \in DOMAIN log : log[i].v # v
    BY <1>2, <2>1, <2>3
  <2>4. CASE \E i \in DOMAIN log : log[i].v = v
    BY <1>4, <2>1, <2>4
  <2> QED
    BY <2>2, <2>3, <2>4
<1> QED
  BY <1>4, <1>5, <1>6 DEF S, n

\* What the log has lost by then, and may yet lose.
LEMMA LossGrows ==
  ASSUME EvolveInv, prog.pc = "append", prog'.pc # "append", versions' = versions,
         \/ log' = Evolve!Joined /\ UNCHANGED crashes /\ tail # "newline" /\ tail' = "newline"
         \/ log' = Evolve!Joined /\ crashes' = crashes + 1 /\ tail' = "torn"
         \/ log' = Append(log, Evolve!Entry) /\ UNCHANGED crashes /\ tail = "newline" /\ tail' = "newline"
         \/ log' = Append(log, Evolve!Entry) /\ crashes' = crashes + 1 /\ tail = "newline" /\ tail' = "bare"
  PROVE  TightLoss'
<1> DEFINE lost == Cardinality(Evolve!Unlogged)
           losing == Cardinality(Evolve!Unlogged')
<1>1. crashes \in Nat /\ tail \in {"newline", "torn", "bare"}
  BY ProgFields DEF EvolveInv, Evolve!TypeOK
<1>2. lost \in Nat /\ losing \in Nat
  <2>1. Evolve!Unlogged' \subseteq Evolve!Versions
    BY DEF Evolve!Unlogged
  <2> QED
    BY <2>1, UnloggedAreFew, EvolveConstants, FS_Subset, FS_CardinalityType
<1>3. lost <= 2 * crashes - Unfinished
  BY DEF EvolveInv, TightLoss
<1>4. log' = Append(log, Evolve!Entry) => losing <= lost
  <2>1. SUFFICES ASSUME log' = Append(log, Evolve!Entry) PROVE losing <= lost
    OBVIOUS
  <2>2. Evolve!Unlogged' \subseteq Evolve!Unlogged
    BY <2>1, LineAppended
  <2> QED
    BY <2>2, UnloggedAreFew, FS_Subset
<1>5. log' = Evolve!Joined => losing <= lost + (IF tail = "bare" THEN 2 ELSE 1)
  <2>1. SUFFICES ASSUME log' = Evolve!Joined PROVE losing <= lost + (IF tail = "bare" THEN 2 ELSE 1)
    OBVIOUS
  <2>2. Evolve!Unlogged' \subseteq Evolve!Unlogged \cup (IF tail = "bare" THEN {prog.round, log[Len(log)].v} ELSE {prog.round})
    BY <2>1, LineJoined
  <2>3. CASE tail = "bare"
    <3>1. Evolve!Unlogged' \subseteq Evolve!Unlogged \cup {prog.round, log[Len(log)].v}
      BY <2>2, <2>3
    <3>2. losing <= lost + 2
      BY <3>1, UnloggedAreFew, GrowsByTwo
    <3> QED
      BY <2>3, <3>2
  <2>4. CASE tail # "bare"
    <3>1. Evolve!Unlogged' \subseteq Evolve!Unlogged \cup {prog.round}
      BY <2>2, <2>4
    <3>2. losing <= lost + 1
      BY <3>1, UnloggedAreFew, GrowsByOne
    <3> QED
      BY <2>4, <3>2
  <2> QED
    BY <2>3, <2>4
<1> HIDE DEF lost
<1>6. losing <= 2 * crashes' - Unfinished'
  <2> HIDE DEF losing
  <2> QED
    BY <1>1, <1>2, <1>3, <1>4, <1>5 DEF Unfinished
<1> QED
  BY <1>6 DEF TightLoss

LEMMA AppendKeeps ==
  ASSUME EvolveInv, Evolve!AppendEntry \/ Evolve!CrashInAppend
  PROVE  EvolveInv'
<1>1. /\ Evolve!TypeOK /\ FilesInv /\ MemoryInv /\ prog.pc = "append" /\ UNCHANGED <<memory, draft, versions>>
  BY DEF EvolveInv, Evolve!AppendEntry, Evolve!CrashInAppend, Evolve!Dies
<1>2. /\ prog.round \in Evolve!Versions /\ prog.round \in Nat /\ \A v \in Evolve!Existing : v <= prog.round /\ v \in Nat
      /\ crashes \in Nat /\ MaxRound \in Nat
  BY <1>1, RoundIsLast, ProgFields, EvolveConstants
<1>3. prog.round + 1 \in 0..(MaxRound + 1) /\ prog.round + 1 # 0
  BY <1>2 DEF Evolve!Versions
<1>4. \/ Evolve!AppendEntry /\ prog'.pc = "loop" /\ prog'.round = prog.round + 1
      \/ Evolve!CrashInAppend /\ prog'.pc = "off"
  BY <1>1 DEF Evolve!AppendEntry, Evolve!CrashInAppend, Evolve!Dies, Evolve!TypeOK
<1>5. prog' \in [pc : {"off", "baseline", "loop", "write", "append", "score"},
                round : 0..(MaxRound + 1), last : Evolve!Versions]
      /\ crashes' \in 0..MaxCrashes /\ tail' \in {"newline", "torn", "bare"}
  <2>1. crashes \in 0..MaxCrashes /\ (crashes < MaxCrashes => crashes + 1 \in 0..MaxCrashes)
    <3>1. crashes \in 0..MaxCrashes /\ MaxCrashes \in Nat
      BY <1>1, StrategiesAssumption DEF Evolve!TypeOK, Evolve!EvolveAssumption
    <3> QED
      BY <3>1
  <2>2. CASE Evolve!AppendEntry
    BY <1>1, <1>3, <2>1, <2>2 DEF Evolve!AppendEntry, Evolve!TypeOK
  <2>3. CASE Evolve!CrashInAppend
    BY <1>1, <2>1, <2>3 DEF Evolve!CrashInAppend, Evolve!Dies, Evolve!TypeOK
  <2> QED
    BY <2>2, <2>3
<1>6. /\ log' = Append(log, Evolve!Entry) \/ (log' = Evolve!Joined /\ tail' # "bare")
      /\ \/ log' = Evolve!Joined /\ UNCHANGED crashes /\ tail # "newline" /\ tail' = "newline"
         \/ log' = Evolve!Joined /\ crashes' = crashes + 1 /\ tail' = "torn"
         \/ log' = Append(log, Evolve!Entry) /\ UNCHANGED crashes /\ tail = "newline" /\ tail' = "newline"
         \/ log' = Append(log, Evolve!Entry) /\ crashes' = crashes + 1 /\ tail = "newline" /\ tail' = "bare"
  BY DEF Evolve!AppendEntry, Evolve!CrashInAppend, Evolve!Dies
<1>7. TightLoss'
  BY <1>1, <1>4, <1>6, LossGrows
<1>8. /\ log' \in Seq([v : Evolve!Versions, kept : BOOLEAN]) /\ Evolve!LoggedIsStored'
      /\ tail' = "bare" => log' # <<>>
  BY <1>1, <1>4, <1>6, LineAppended, LineJoined
<1>9. Evolve!TypeOK'
  BY <1>1, <1>4, <1>5, <1>8 DEF Evolve!TypeOK
<1>10. Evolve!Existing' = Evolve!Existing /\ Evolve!KeptRounds' = Evolve!KeptRounds
  BY <1>1 DEF Evolve!Existing, Evolve!KeptRounds, Evolve!Kept, Evolve!Whole
<1>11. FilesInv'
  <2>1. \A v \in Evolve!Existing : v < prog.round + 1
    BY <1>2
  <2>2. \A v \in Evolve!Versions : ~Evolve!Whole(v)' => versions'[v].config = {} /\ versions'[v].val = Evolve!NoMetrics /\ ~versions'[v].kept
    BY <1>1 DEF FilesInv, Evolve!Whole
  <2> QED
    BY <1>3, <1>4, <1>8, <1>10, <2>1, <2>2 DEF FilesInv
<1>12. MemoryInv' /\ DraftInv'
  <2>1. \A v \in Evolve!Versions : Evolve!Kept(v)' => AtMost(versions'[v].val, memory.best)
    BY <1>1 DEF MemoryInv, Evolve!Kept, Evolve!Whole
  <2> QED
    BY <1>1, <1>4, <1>10, <2>1 DEF MemoryInv, DraftInv
<1>13. Evolve!CarriesWhatWasKept'
  BY <1>1, <1>10 DEF EvolveInv, Evolve!CarriesWhatWasKept, Evolve!Whole
<1>14. Evolve!KeptImproves' /\ Evolve!TurnoverIsAnchored'
  BY <1>1, <1>10 DEF EvolveInv, Evolve!KeptImproves, Evolve!TurnoverIsAnchored, Evolve!Kept, Evolve!Whole
<1> QED
  BY <1>7, <1>8, <1>9, <1>11, <1>12, <1>13, <1>14 DEF EvolveInv

LEMMA EvolveKeeps == EvolveInv /\ [Evolve!Next]_(Evolve!vars) => EvolveInv'
<1> SUFFICES ASSUME EvolveInv, [Evolve!Next]_(Evolve!vars) PROVE EvolveInv'
  OBVIOUS
<1>1. CASE \E last \in Evolve!Rounds : Evolve!Begin(last)
  BY <1>1, BeginKeeps
<1>2. CASE \E val \in Metrics : Evolve!Baseline(val) \/ Evolve!Evaluate(val)
  BY <1>2, BaselineKeeps, EvaluateKeeps
<1>3. CASE Evolve!Skip \/ Evolve!Write \/ Evolve!AppendEntry \/ Evolve!Finish \/ Evolve!Score \/ Evolve!Crash \/ Evolve!CrashInWrite \/ Evolve!CrashInAppend
  BY <1>3, SkipKeeps, WriteKeeps, AppendKeeps, EndKeeps, CrashInWriteKeeps
<1>4. CASE UNCHANGED Evolve!vars
  <2>1. /\ Evolve!CarriesWhatWasKept' /\ Evolve!KeptImproves' /\ Evolve!TurnoverIsAnchored' /\ Evolve!LoggedIsStored'
        /\ Evolve!Existing' = Evolve!Existing /\ Evolve!KeptRounds' = Evolve!KeptRounds
        /\ \A v \in Evolve!Versions : Evolve!Kept(v)' = Evolve!Kept(v) /\ Evolve!Whole(v)' = Evolve!Whole(v)
    BY <1>4, FilesStay DEF Evolve!vars
  <2>2. Evolve!TypeOK' /\ FilesInv' /\ MemoryInv' /\ DraftInv'
    BY <1>4, <2>1 DEF Evolve!vars, EvolveInv, Evolve!TypeOK, FilesInv, MemoryInv, DraftInv
  <2>3. TightLoss'
    BY <1>4 DEF Evolve!vars, EvolveInv, TightLoss, Evolve!Unlogged, Unfinished, Evolve!Whole
  <2> QED
    BY <2>1, <2>2, <2>3 DEF EvolveInv
<1> QED
  BY <1>1, <1>2, <1>3, <1>4 DEF Evolve!Next

\* What the run checks of the loop; the readers agree as all that is logged can be read.
LEMMA EvolveSays ==
  ASSUME EvolveInv
  PROVE  /\ Evolve!TypeOK /\ Evolve!CarriesWhatWasKept /\ Evolve!KeptImproves /\ Evolve!TurnoverIsAnchored
         /\ Evolve!LoggedIsStored /\ Evolve!LossIsBounded /\ Evolve!ReadersAgree
<1>1. Evolve!LossIsBounded
  <2> DEFINE lost == Cardinality(Evolve!Unlogged)
  <2>1. crashes \in Nat
    BY ProgFields DEF EvolveInv
  <2>2. lost \in Nat /\ lost <= 2 * crashes - Unfinished /\ Unfinished \in Nat
    BY UnloggedAreFew DEF EvolveInv, TightLoss, Unfinished
  <2> HIDE DEF lost
  <2>3. lost <= 2 * crashes
    BY <2>1, <2>2
  <2> QED
    BY <2>3, CardinalitiesAreOne DEF Evolve!LossIsBounded, lost
<1>2. Evolve!ReadersAgree
  <2>1. \A i \in DOMAIN log : Evolve!Whole(log[i].v)
    BY DEF EvolveInv, Evolve!LoggedIsStored
  <2>2. Evolve!LoggedKept \subseteq DOMAIN log
    BY DEF Evolve!LoggedKept
  <2>3. {i \in Evolve!LoggedKept : Evolve!Whole(log[i].v)} = Evolve!LoggedKept
    BY <2>1, <2>2
  <2>4. versions[0].config = {}
    <3>1. 0 \in Evolve!Versions
      BY EvolveConstants
    <3>2. CASE Evolve!Whole(0)
      <4>1. versions[0].config = {r \in Evolve!KeptRounds : r < 0}
        BY <3>1, <3>2 DEF EvolveInv, Evolve!CarriesWhatWasKept
      <4>2. \A r \in Evolve!KeptRounds : ~(r < 0)
        BY EvolveConstants DEF Evolve!KeptRounds
      <4> QED
        BY <4>1, <4>2
    <3>3. CASE ~Evolve!Whole(0)
      BY <3>1, <3>3 DEF EvolveInv, FilesInv
    <3> QED
      BY <3>2, <3>3
  <2>5. CASE Evolve!LoggedKept = {}
    BY <2>3, <2>4, <2>5 DEF Evolve!ReadersAgree, Evolve!BestConfig, Evolve!LoadBestConfig
  <2>6. CASE Evolve!LoggedKept # {}
    <3>1. IsFiniteSet(Evolve!LoggedKept) /\ Evolve!LoggedKept \subseteq Nat
      <4>1. DOMAIN log = 1..Len(log) /\ Len(log) \in Nat
        BY DEF EvolveInv, Evolve!TypeOK
      <4>2. IsFiniteSet(1..Len(log)) /\ 1..Len(log) \subseteq Nat
        BY <4>1, FS_Interval
      <4> QED
        BY <2>2, <4>1, <4>2, FS_Subset
    <3>2. Evolve!Latest(Evolve!LoggedKept) \in Evolve!LoggedKept
      BY <2>6, <3>1, LatestIsLast
    <3>3. Evolve!Whole(log[Evolve!Latest(Evolve!LoggedKept)].v)
      BY <2>1, <2>2, <3>2
    <3> QED
      BY <2>3, <2>6, <3>3 DEF Evolve!ReadersAgree, Evolve!BestConfig, Evolve!LoadBestConfig
  <2> QED
    BY <2>5, <2>6
<1> QED
  BY <1>1, <1>2 DEF EvolveInv

-----------------------------------------------------------------------------
\* The behaviours of MCStrategies: one of the four.

StrategiesInv ==
    /\ IInv /\ TradesExplainCash
    /\ which = "agents" => BookInv
    /\ which = "chat" => ChatInv
    /\ which = "evolve" => EvolveInv

LEMMA StrategiesStart ==
  StrategyInit => StrategiesInv /\ (which = "agents" => Book!GainsExplainCash)
BY InvInit, TradesStartExplained, BookStarts, ChatStarts, EvolveStarts DEF StrategyInit, StrategiesInv

LEMMA StrategiesKeep ==
  ASSUME StrategiesInv, [StrategyNext]_<<which, vars, bookVars, chatVars, loopVars>>
  PROVE  /\ StrategiesInv'
         /\ which = "agents" =>
              /\ Book!GainsExplainCash /\ ExactAverages => Book!GainsExplainCash'
              /\ money'.cash < money.cash /\ money'.cash < 0 =>
                   \E t \in Assets : holdings'[t].short < holdings[t].short
<1>1. which' = which
  BY DEF StrategyNext
<1>2. [Next]_vars
  BY DEF StrategyNext
<1>3. IInv' /\ TradesExplainCash'
  BY <1>2, InvNext, TradesStayExplained DEF StrategiesInv
<1>4. which = "agents" => [Book!BookNext]_(Book!bookVars)
  BY DEF StrategyNext, bookVars, Book!bookVars
<1>5. which = "agents" =>
        /\ BookInv'
        /\ Book!GainsExplainCash /\ ExactAverages => Book!GainsExplainCash'
        /\ money'.cash < money.cash /\ money'.cash < 0 =>
             \E t \in Assets : holdings'[t].short < holdings[t].short
  BY <1>4, BookKeeps DEF StrategiesInv
<1>6. which = "chat" => [Lab!Next]_(Lab!vars)
  BY DEF StrategyNext, chatVars, Lab!vars
<1>7. which = "chat" => ChatInv'
  BY <1>6, ChatKeeps DEF StrategiesInv
<1>8. which = "evolve" => [Evolve!Next]_(Evolve!vars)
  BY DEF StrategyNext, loopVars, Evolve!vars
<1>9. which = "evolve" => EvolveInv'
  BY <1>8, EvolveKeeps DEF StrategiesInv
<1> QED
  BY <1>1, <1>3, <1>5, <1>7, <1>9 DEF StrategiesInv

\* What a position that grows costs is what was paid, or received, for it.
AveragesAreExact == [][which = "agents" => ExactAverages]_bookVars

LEMMA StrategiesHold == StrategySpec => []StrategiesInv
<1>1. StrategyInit => StrategiesInv
  BY StrategiesStart
<1>2. StrategiesInv /\ [StrategyNext]_<<which, vars, bookVars, chatVars, loopVars>> => StrategiesInv'
  BY StrategiesKeep
<1> QED
  BY <1>1, <1>2, PTL DEF StrategySpec

\* Whatever the agent orders, long and short, only buying back shorted shares leaves its
\* portfolio with less than no cash: what a buy costs and the margin of a short sale are
\* covered when they are filled (portfolio.py).
THEOREM OnlyCoversEverOverdraw == StrategySpec => OnlyCoversOverdraw
<1>1. StrategiesInv /\ [StrategyNext]_<<which, vars, bookVars, chatVars, loopVars>> =>
        [which = "agents" =>
           (money'.cash < money.cash /\ money'.cash < 0 => \E t \in Assets : holdings'[t].short < holdings[t].short)]_bookVars
  BY StrategiesKeep
<1> QED
  BY <1>1, StrategiesHold, PTL DEF StrategySpec, OnlyCoversOverdraw

\* The account's margin is that of its short positions, and a closed position leaves neither
\* margin nor cost basis behind.
THEOREM MarginAlwaysMatches == StrategySpec => [](which = "agents" => Book!MarginMatchesShorts)
<1>1. StrategiesInv => (which = "agents" => Book!MarginMatchesShorts)
  BY DEF StrategiesInv, BookInv
<1> QED
  BY <1>1, StrategiesHold, PTL

\* The trades of a simulation explain its cash.
THEOREM TradesAlwaysExplainCash == StrategySpec => []TradesExplainCash
<1>1. StrategiesInv => TradesExplainCash
  BY DEF StrategiesInv
<1> QED
  BY <1>1, StrategiesHold, PTL

\* The records of a backtest are one account, the agents' as long as their averages are exact.
THEOREM RecordsAlwaysAgree == StrategySpec /\ AveragesAreExact => []RecordsAgree
<1> DEFINE All == StrategiesInv /\ (which = "agents" => Book!GainsExplainCash)
           Exact == [which = "agents" => ExactAverages]_bookVars
<1>1. StrategyInit => All
  BY StrategiesStart
<1>2. ASSUME All, [StrategyNext]_<<which, vars, bookVars, chatVars, loopVars>>, Exact
      PROVE  All'
  <2>1. /\ StrategiesInv'
        /\ which = "agents" => (Book!GainsExplainCash /\ ExactAverages => Book!GainsExplainCash')
    BY <1>2, StrategiesKeep
  <2>2. which' = which
    BY <1>2 DEF StrategyNext
  <2>3. CASE which = "agents" => ExactAverages
    BY <1>2, <2>1, <2>2, <2>3
  <2>4. CASE UNCHANGED bookVars
    <3>1. Book!GainsExplainCash' = Book!GainsExplainCash
      BY <2>4 DEF bookVars, Book!GainsExplainCash, Book!Booked, Book!Gained
    <3> QED
      BY <1>2, <2>1, <2>2, <3>1
  <2> QED
    BY <1>2, <2>3, <2>4
<1>3. All => RecordsAgree
  BY DEF StrategiesInv, BookInv, RecordsAgree
<1> HIDE DEF All
<1>4. All /\ [StrategyNext]_<<which, vars, bookVars, chatVars, loopVars>> /\ Exact => All'
  BY <1>2
<1> QED
  BY <1>1, <1>3, <1>4, PTL DEF StrategySpec, AveragesAreExact

\* Whatever the requests on a strategy of the lab, and however they overlap, its chat tells the
\* changes of its specification: no proposal is marked accepted that was not applied, no change
\* goes untold, and no proposal is older than an edit its user could see (lab.py).
THEOREM ChatAlwaysTells == StrategySpec => []ChatTellsChanges
<1>1. StrategiesInv => ChatTellsChanges
  BY ChatSays DEF StrategiesInv, ChatTellsChanges
<1> QED
  BY <1>1, StrategiesHold, PTL

\* However often the loop dies, at whatever step, and starts again, its versions carry what was kept
\* and nothing else, each kept one is better than those before it and under the ceiling of the first
\* baseline, what the log says is stored, and it lacks two rounds per death at most (loop.py).
THEOREM EvolutionAlwaysResumes == StrategySpec => []EvolutionResumes
<1>1. StrategiesInv => EvolutionResumes
  BY EvolveSays DEF StrategiesInv, EvolutionResumes
<1> QED
  BY <1>1, StrategiesHold, PTL
=============================================================================
