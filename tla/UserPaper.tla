------------------------------- MODULE UserPaper -------------------------------
(***************************************************************************)
(* A user's virtual account: fills, marks and views as the database        *)
(* transactions of concurrent requests                                     *)
(* (app/backend/services/user_paper_service.py, routes/paper.py).          *)
(*                                                                         *)
(* Amounts are whole numbers of the smallest unit a column holds, `Scale'  *)
(* of them to a dollar or a share.  A request works on what it read; only  *)
(* the row lock on the account keeps that current.                         *)
(***************************************************************************)
EXTENDS Integers, FiniteSetsExt

CONSTANTS
    Users,
    Requests,     \* HTTP requests being served at the same time
    Tickers,
    Quantities,   \* what an order may ask for, validated by the request schema
    Prices,       \* likewise, for an order or a mark
    Deposits,     \* initial cash of a new account
    Scale,        \* units in a dollar and in a share (10^6 in the code)
    MaxAmount,    \* the largest amount a column holds
    MaxTrades     \* trade rows an account may have in the model

Free == "free"

ASSUME UserPaperAssumption ==
    /\ Free \notin Requests /\ IsFiniteSet(Tickers)
    /\ Scale \in Nat \ {0}
    /\ MaxAmount \in Nat
    /\ MaxTrades \in Nat
    /\ Quantities \subseteq Nat \ {0}
    /\ Prices \subseteq Nat \ {0}
    /\ Deposits \subseteq 0..MaxAmount

VARIABLES
    accounts,    \* user_paper_accounts, by owner
    positions,   \* user_paper_positions, by owner and ticker; quantity 0 is no row
    trades,      \* user_paper_trades of each owner, in totals
    locks,       \* row lock of each account: the request that holds it
    requests     \* the handlers at work

vars == <<accounts, positions, trades, locks, requests>>

Nobody == "nobody"

NoAccount == [open |-> FALSE, initial |-> 0, cash |-> 0, realized |-> 0]
NoPosition == [quantity |-> 0, cost |-> 0, price |-> 0]
NoHoldings == [t \in Tickers |-> NoPosition]
NoTrades == [count |-> 0, paid |-> 0, received |-> 0, realized |-> 0, net |-> [t \in Tickers |-> 0]]
NoOrder == [side |-> "none", ticker |-> "none", quantity |-> 0, price |-> 0]

Account == [open : BOOLEAN, initial : Nat, cash : 0..MaxAmount, realized : Int]
Position == [quantity : Nat, cost : Nat, price : Nat]
Holdings == [Tickers -> Position]
Ledger == [count : 0..MaxTrades, paid : Nat, received : Nat, realized : Int, net : [Tickers -> Nat]]
Orders == [side : {"buy", "sell", "mark"}, ticker : Tickers, quantity : Quantities, price : Prices]
Request == [pc : {"idle", "insert", "holdings", "apply", "snapshot", "answered"},
            user : Users \cup {Nobody}, order : Orders \cup {NoOrder}, deposit : 0..MaxAmount,
            account : Account, holdings : Holdings, ledger : Ledger]

\* Nothing is ever overdrawn: cash, quantities and cost are never negative.
TypeOK ==
    /\ accounts \in [Users -> Account]
    /\ positions \in [Users -> Holdings]
    /\ trades \in [Users -> Ledger]
    /\ locks \in [Users -> Requests \cup {Free}]
    /\ requests \in [Requests -> Request]

Idle == [pc |-> "idle", user |-> Nobody, order |-> NoOrder, deposit |-> 0,
         account |-> NoAccount, holdings |-> NoHoldings, ledger |-> NoTrades]

Init ==
    /\ accounts = [u \in Users |-> NoAccount]
    /\ positions = [u \in Users |-> NoHoldings]
    /\ trades = [u \in Users |-> NoTrades]
    /\ locks = [u \in Users |-> Free]
    /\ requests = [p \in Requests |-> Idle]

-----------------------------------------------------------------------------
\* Arithmetic.

\* a / b rounded to a whole number, ties to the even one (Decimal.quantize).
RoundHalfEven(a, b) ==
    LET q == a \div b
        r == a % b
    IN  IF 2 * r < b \/ (2 * r = b /\ q % 2 = 0) THEN q ELSE q + 1

\* money(order.quantity * order.price)
Notional(order) == RoundHalfEven(order.quantity * order.price, Scale)

\* Mutant of Released: the part of the cost is always rounded on its own.
ReleasedRoundedUp(position, quantity) == (position.cost * quantity) \div position.quantity + 1

\* The cost basis that leaves with the shares sold: all of it with the last of them.
Released(position, quantity) ==
    IF position.quantity = quantity THEN position.cost
    ELSE RoundHalfEven(position.cost * quantity, position.quantity)

-----------------------------------------------------------------------------
\* Requests.

\* create_account, first half: no account yet, checked without a lock.
CheckAccount(p, u, deposit) ==
    /\ requests[p].pc = "idle"
    /\ ~accounts[u].open
    /\ requests' = [requests EXCEPT ![p] = [Idle EXCEPT !.pc = "insert", !.user = u,
                                                        !.deposit = deposit]]
    /\ UNCHANGED <<accounts, positions, trades, locks>>

Owner(p) == requests[p].user

\* create_account, second half: the row is inserted, or the unique user_id refuses it.
InsertAccount(p) ==
    /\ requests[p].pc = "insert"
    /\ \/ /\ accounts[Owner(p)].open
          /\ requests' = [requests EXCEPT ![p] = Idle]
          /\ UNCHANGED accounts
       \/ /\ ~accounts[Owner(p)].open
          /\ accounts' = [accounts EXCEPT ![Owner(p)] =
               [open |-> TRUE, initial |-> requests[p].deposit, cash |-> requests[p].deposit,
                realized |-> 0]]
          /\ requests' = [requests EXCEPT ![p].pc = "snapshot"]
    /\ UNCHANGED <<positions, trades, locks>>

\* Mutant of LockAccount: account_for without FOR UPDATE.
ReadAccount(p, u, order) ==
    /\ accounts[u].open
    /\ requests' = [requests EXCEPT ![p] = [Idle EXCEPT !.pc = "holdings", !.user = u,
                                                        !.order = order, !.account = accounts[u]]]
    /\ UNCHANGED <<accounts, positions, trades, locks>>

\* account_for(lock=True): SELECT ... FOR UPDATE waits for the lock, then reads.
LockAccount(p, u, order) ==
    /\ accounts[u].open
    /\ locks[u] = Free
    /\ locks' = [locks EXCEPT ![u] = p]
    /\ requests' = [requests EXCEPT ![p] = [Idle EXCEPT !.pc = "holdings", !.user = u,
                                                        !.order = order, !.account = accounts[u]]]
    /\ UNCHANGED <<accounts, positions, trades>>

\* POST /paper/orders and POST /paper/marks.
Begin(p, u, order) ==
    /\ requests[p].pc = "idle"
    /\ LockAccount(p, u, order)

\* GET /paper/account.
View(p, u) ==
    /\ requests[p].pc = "idle"
    /\ requests' = [requests EXCEPT ![p] = [Idle EXCEPT !.pc = "snapshot", !.user = u]]
    /\ UNCHANGED <<accounts, positions, trades, locks>>

\* snapshot(), which also answers every order, mark and creation after its commit.
BeginSnapshot(p) ==
    /\ requests[p].pc = "snapshot"
    /\ LockAccount(p, Owner(p), NoOrder)

\* The position of the order, or all of them for a snapshot.
ReadHoldings(p) ==
    /\ requests[p].pc = "holdings"
    /\ requests' = [requests EXCEPT ![p].pc = "apply", ![p].holdings = positions[Owner(p)]]
    /\ UNCHANGED <<accounts, positions, trades, locks>>

Unlocked(p) == [u \in Users |-> IF locks[u] = p THEN Free ELSE locks[u]]

\* The amounts a column can hold; the database refuses a row with any other.
Fits(account, position) ==
    /\ account.cash <= MaxAmount
    /\ account.realized \in -MaxAmount..MaxAmount
    /\ position.quantity <= MaxAmount
    /\ position.cost <= MaxAmount

\* The transaction commits: the rows take the values the handler worked out.
Commit(p, account, position, ledger) ==
    /\ Fits(account, position)
    /\ accounts' = [accounts EXCEPT ![Owner(p)] = account]
    /\ positions' = [positions EXCEPT ![Owner(p)][requests[p].order.ticker] = position]
    /\ trades' = [trades EXCEPT ![Owner(p)] = ledger]
    /\ locks' = Unlocked(p)
    /\ requests' = [requests EXCEPT ![p].pc = "snapshot"]

\* Mutant of Affordable: the check is left out.
AffordableAlways(account, notional) == TRUE

Affordable(account, notional) == notional <= account.cash

\* The account after a fill, and the trade row it leaves.
Credited(account, amount, gain) ==
    [open |-> account.open, initial |-> account.initial, cash |-> account.cash + amount,
     realized |-> account.realized + gain]

Booked(ledger, ticker, quantity, paid, received, gain) ==
    [count |-> ledger.count + 1, paid |-> ledger.paid + paid,
     received |-> ledger.received + received, realized |-> ledger.realized + gain,
     net |-> [ledger.net EXCEPT ![ticker] = @ + quantity]]

\* fill(), a buy.
Buy(p) ==
    LET order == requests[p].order
        account == requests[p].account
        position == requests[p].holdings[order.ticker]
        notional == Notional(order)
        ledger == trades[Owner(p)]
    IN  /\ requests[p].pc = "apply"
        /\ order.side = "buy"
        /\ notional >= 1
        /\ Affordable(account, notional)
        /\ ledger.count < MaxTrades
        /\ Commit(p, Credited(account, -notional, 0),
                     [quantity |-> position.quantity + order.quantity,
                      cost |-> position.cost + notional, price |-> order.price],
                     Booked(ledger, order.ticker, order.quantity, notional, 0, 0))

\* fill(), a sell; a position sold out is deleted.
Sell(p) ==
    LET order == requests[p].order
        account == requests[p].account
        position == requests[p].holdings[order.ticker]
        notional == Notional(order)
        released == Released(position, order.quantity)
        left == position.quantity - order.quantity
        ledger == trades[Owner(p)]
    IN  /\ requests[p].pc = "apply"
        /\ order.side = "sell"
        /\ notional >= 1
        /\ order.quantity <= position.quantity
        /\ ledger.count < MaxTrades
        /\ Commit(p, Credited(account, notional, notional - released),
                     IF left = 0 THEN NoPosition
                     ELSE [quantity |-> left, cost |-> position.cost - released,
                           price |-> order.price],
                     Booked(ledger, order.ticker, -order.quantity, 0, notional,
                            notional - released))

\* mark_position: only a position that exists, and only its last price.
Mark(p) ==
    LET order == requests[p].order
        position == requests[p].holdings[order.ticker]
    IN  /\ requests[p].pc = "apply"
        /\ order.side = "mark"
        /\ position.quantity > 0
        /\ positions' = [positions EXCEPT ![Owner(p)][order.ticker].price = order.price]
        /\ locks' = Unlocked(p)
        /\ requests' = [requests EXCEPT ![p].pc = "snapshot"]
        /\ UNCHANGED <<accounts, trades>>

\* The end of snapshot(): the trades are read and the session is closed.
Answer(p) ==
    /\ requests[p].pc = "apply"
    /\ requests[p].order = NoOrder
    /\ requests' = [requests EXCEPT ![p].pc = "answered", ![p].ledger = trades[Owner(p)]]
    /\ locks' = Unlocked(p)
    /\ UNCHANGED <<accounts, positions, trades>>

\* The request ends: answered, refused (too small, no cash, no shares, no position, an
\* amount no column holds), or cut off; what was not committed is rolled back.
Finish(p) ==
    /\ requests[p].pc # "idle"
    /\ requests' = [requests EXCEPT ![p] = Idle]
    /\ locks' = Unlocked(p)
    /\ UNCHANGED <<accounts, positions, trades>>

Next == \E p \in Requests :
    \/ \E u \in Users, deposit \in Deposits : CheckAccount(p, u, deposit)
    \/ \E u \in Users, order \in Orders : Begin(p, u, order)
    \/ \E u \in Users : View(p, u)
    \/ InsertAccount(p) \/ BeginSnapshot(p) \/ ReadHoldings(p)
    \/ Buy(p) \/ Sell(p) \/ Mark(p) \/ Answer(p) \/ Finish(p)

Spec == Init /\ [][Next]_vars

-----------------------------------------------------------------------------
\* Properties.

CostOf(holdings) == SumFunction([t \in Tickers |-> holdings[t].cost])

\* Money is conserved: cash and what the positions cost are what was paid in plus what
\* was realized, to the last unit, for every mix of fills and whatever rounding did.
BooksBalance ==
    \A u \in Users : accounts[u].cash + CostOf(positions[u]) = accounts[u].initial + accounts[u].realized

\* The account and the holdings are what the trade rows say they are: no fill is lost
\* to another request's, and none is applied twice.
TradesExplainAccount ==
    \A u \in Users :
        /\ accounts[u].cash = accounts[u].initial + trades[u].received - trades[u].paid
        /\ accounts[u].realized = trades[u].realized
        /\ \A t \in Tickers : positions[u][t].quantity = trades[u].net[t]

\* An answer is one moment of the account: its cash, positions and trades belong
\* together, and total P&L is realized plus unrealized.
AnswersAreCoherent ==
    \A p \in Requests : requests[p].pc = "answered" =>
        /\ requests[p].account.cash + CostOf(requests[p].holdings)
             = requests[p].account.initial + requests[p].account.realized
        /\ requests[p].account.cash = requests[p].account.initial
             + requests[p].ledger.received - requests[p].ledger.paid
        /\ \A t \in Tickers : requests[p].holdings[t].quantity = requests[p].ledger.net[t]

\* An account is opened once: neither its initial cash nor its history is ever reset.
AccountsAreNotReset ==
    [][\A u \in Users : accounts[u].open =>
         /\ accounts'[u].open
         /\ accounts'[u].initial = accounts[u].initial
         /\ trades'[u].paid >= trades[u].paid
         /\ trades'[u].received >= trades[u].received]_vars

\* What a request read is current as long as it holds the lock.
LockInv ==
    /\ \A p \in Requests : requests[p].pc # "idle" => requests[p].user \in Users
    /\ \A p \in Requests : requests[p].pc \in {"holdings", "apply"} =>
         /\ locks[requests[p].user] = p
         /\ accounts[requests[p].user].open
         /\ requests[p].account = accounts[requests[p].user]
    /\ \A p \in Requests : requests[p].pc = "apply" =>
         requests[p].holdings = positions[requests[p].user]
    /\ \A u \in Users : locks[u] # Free =>
         requests[locks[u]].user = u /\ requests[locks[u]].pc \in {"holdings", "apply"}
=============================================================================
