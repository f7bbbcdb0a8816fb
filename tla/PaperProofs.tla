------------------------------ MODULE PaperProofs ------------------------------
(***************************************************************************)
(* Theorems about paper trading: the users' accounts (UserPaper), for any  *)
(* users, requests, tickers and amounts, and the sleeves of the forward    *)
(* test (PaperSleeves), for any sleeves, tickers, prices and calendar.     *)
(***************************************************************************)
EXTENDS MCPaper, Sequences, SumFacts, TLAPS

\* Rounding stays a natural number, and never rounds above a whole number that the
\* exact value does not exceed.
LEMMA RoundingIsNat ==
  ASSUME NEW a \in Nat, NEW b \in Nat \ {0}
  PROVE  RoundHalfEven(a, b) \in Nat
<1>1. a \div b \in Nat
  OBVIOUS
<1> QED
  BY <1>1 DEF RoundHalfEven

LEMMA RoundingIsBounded ==
  ASSUME NEW a \in Nat, NEW b \in Nat \ {0}, NEW c \in Nat, a <= c * b
  PROVE  RoundHalfEven(a, b) <= c
<1> DEFINE q == a \div b
           r == a % b
<1>1. q \in Nat /\ r \in 0..(b - 1) /\ a = b * q + r
  OBVIOUS
<1> HIDE DEF q, r
<1>2. q <= c
  <2> SUFFICES ASSUME q >= c + 1 PROVE FALSE
    BY <1>1
  <2>1. b * q >= b * (c + 1)
    BY <1>1
  <2>2. b * (c + 1) = c * b + b
    OBVIOUS
  <2> QED
    BY <1>1, <2>1, <2>2
<1>3. q = c => r = 0
  <2>1. q = c => b * q = c * b
    BY <1>1
  <2> QED
    BY <1>1, <2>1
<1>4. RoundHalfEven(a, b) = IF 2 * r < b \/ (2 * r = b /\ q % 2 = 0) THEN q ELSE q + 1
  BY DEF RoundHalfEven, q, r
<1> QED
  BY <1>1, <1>2, <1>3, <1>4

\* Selling no more than there is releases no more than it cost.
LEMMA ReleasedIsBounded ==
  ASSUME NEW position \in Position, NEW n \in Nat \ {0}, n <= position.quantity
  PROVE  Released(position, n) \in 0..position.cost
<1>1. position.quantity \in Nat \ {0} /\ position.cost \in Nat
  BY DEF Position
<1>2. position.cost * n <= position.cost * position.quantity /\ position.cost * n \in Nat
  BY <1>1
<1>3. RoundHalfEven(position.cost * n, position.quantity) \in Nat
  BY <1>1, <1>2, RoundingIsNat
<1>4. RoundHalfEven(position.cost * n, position.quantity) <= position.cost
  BY <1>1, <1>2, RoundingIsBounded
<1> QED
  BY <1>1, <1>3, <1>4 DEF Released

-----------------------------------------------------------------------------
\* The inductive invariant: every request that holds a lock works on current values,
\* and so every fill keeps the account equal to its trades.
IInv == TypeOK /\ LockInv /\ TradesExplainAccount

LEMMA TypeInit == Init => TypeOK
<1> SUFFICES ASSUME Init PROVE TypeOK
  OBVIOUS
<1>1. NoAccount \in Account
  BY UserPaperAssumption DEF NoAccount, Account
<1>2. NoHoldings \in Holdings
  BY DEF NoHoldings, NoPosition, Holdings, Position
<1>3. NoTrades \in Ledger
  BY UserPaperAssumption DEF NoTrades, Ledger
<1>4. Idle \in Request
  BY <1>1, <1>2, <1>3, UserPaperAssumption DEF Idle, Request
<1> QED
  BY <1>1, <1>2, <1>3, <1>4 DEF Init, TypeOK

LEMMA InvInit == Init => IInv
<1> SUFFICES ASSUME Init PROVE LockInv /\ TradesExplainAccount
  BY TypeInit DEF IInv
<1>1. LockInv
  BY DEF Init, LockInv, Idle
<1>2. TradesExplainAccount
  BY DEF Init, TradesExplainAccount, NoAccount, NoTrades, NoHoldings, NoPosition
<1> QED
  BY <1>1, <1>2

\* What a request may become.
LEMMA RequestMoves ==
  ASSUME TypeOK, NEW p \in Requests
  PROVE  /\ Idle \in Request
         /\ \A pc \in {"insert", "holdings", "apply", "snapshot", "answered"} :
               [requests[p] EXCEPT !.pc = pc] \in Request
         /\ \A pc \in {"insert", "snapshot", "holdings"}, u \in Users :
               [[Idle EXCEPT !.pc = pc] EXCEPT !.user = u] \in Request
<1>1. Idle \in Request
  <2>1. NoAccount \in Account
    BY UserPaperAssumption DEF NoAccount, Account
  <2>2. NoHoldings \in Holdings
    BY DEF NoHoldings, NoPosition, Holdings, Position
  <2>3. NoTrades \in Ledger
    BY UserPaperAssumption DEF NoTrades, Ledger
  <2> QED
    BY <2>1, <2>2, <2>3, UserPaperAssumption DEF Idle, Request
<1>2. requests[p] \in Request
  BY DEF TypeOK
<1>3. \A pc \in {"insert", "holdings", "apply", "snapshot", "answered"}, new \in Request :
         [new EXCEPT !.pc = pc] \in Request
  BY DEF Request
<1>4. \A u \in Users, new \in Request : [new EXCEPT !.user = u] \in Request
  BY DEF Request
<1> QED
  BY <1>1, <1>2, <1>3, <1>4

\* A step of p that ends with p holding no lock, and that touched no account p had not
\* locked, keeps everybody's reads current.
LEMMA LockStep ==
  ASSUME TypeOK, LockInv, NEW p \in Requests, locks' = Unlocked(p),
         requests' \in [Requests -> Request],
         \A q \in Requests : q # p => requests'[q] = requests[q],
         requests'[p].pc \notin {"holdings", "apply"},
         requests'[p].pc # "idle" => requests'[p].user \in Users,
         \A v \in Users : locks[v] \notin {p, Free} =>
            accounts'[v] = accounts[v] /\ positions'[v] = positions[v]
  PROVE  LockInv'
<1>1. \A u \in Users : locks'[u] = IF locks[u] = p THEN Free ELSE locks[u]
  BY DEF Unlocked
<1>2. Free \notin Requests
  BY UserPaperAssumption
<1>3. \A q \in Requests : requests'[q].pc # "idle" => requests'[q].user \in Users
  BY DEF LockInv
<1>4. ASSUME NEW q \in Requests, requests'[q].pc \in {"holdings", "apply"}
      PROVE  /\ locks'[requests'[q].user] = q
             /\ accounts'[requests'[q].user].open
             /\ requests'[q].account = accounts'[requests'[q].user]
             /\ requests'[q].pc = "apply" => requests'[q].holdings = positions'[requests'[q].user]
  <2>1. q # p /\ requests'[q] = requests[q]
    BY <1>4
  <2>2. requests[q].user \in Users /\ locks[requests[q].user] = q
    BY <1>4, <2>1 DEF LockInv
  <2>3. locks[requests[q].user] \notin {p, Free}
    BY <1>2, <2>1, <2>2
  <2>4. locks'[requests[q].user] = q
    BY <1>1, <2>1, <2>2
  <2>5. accounts'[requests[q].user] = accounts[requests[q].user]
        /\ positions'[requests[q].user] = positions[requests[q].user]
    BY <2>2, <2>3
  <2> QED
    BY <1>4, <2>1, <2>2, <2>4, <2>5 DEF LockInv
<1>5. ASSUME NEW u \in Users, locks'[u] # Free
      PROVE  requests'[locks'[u]].user = u /\ requests'[locks'[u]].pc \in {"holdings", "apply"}
  <2>1. locks'[u] = locks[u] /\ locks[u] # p /\ locks[u] # Free
    BY <1>1, <1>5
  <2>2. locks[u] \in Requests
    BY <2>1 DEF TypeOK
  <2> QED
    BY <2>1, <2>2 DEF LockInv
<1> QED
  BY <1>3, <1>4, <1>5 DEF LockInv

\* A request without a lock has none to give back.
LEMMA NothingToUnlock ==
  ASSUME TypeOK, LockInv, NEW p \in Requests, requests[p].pc \notin {"holdings", "apply"}
  PROVE  locks = Unlocked(p)
<1>1. \A u \in Users : locks[u] # p
  <2> SUFFICES ASSUME NEW u \in Users, locks[u] = p PROVE FALSE
    OBVIOUS
  <2>1. locks[u] # Free
    BY UserPaperAssumption
  <2> QED
    BY <2>1 DEF LockInv
<1> QED
  BY <1>1 DEF Unlocked, TypeOK

\* A commit writes one account, one position and the trades of one owner.
LEMMA CommitStep ==
  ASSUME IInv, NEW p \in Requests, requests[p].pc = "apply", requests[p].order \in Orders,
         NEW account \in Account, NEW position \in Position, NEW ledger \in Ledger,
         Commit(p, account, position, ledger)
  PROVE  /\ TypeOK' /\ LockInv'
         /\ Owner(p) \in Users
         /\ accounts'[Owner(p)] = account
         /\ trades'[Owner(p)] = ledger
         /\ positions'[Owner(p)] = [positions[Owner(p)] EXCEPT ![requests[p].order.ticker] = position]
         /\ \A v \in Users : v # Owner(p) =>
               /\ accounts'[v] = accounts[v] /\ trades'[v] = trades[v]
               /\ positions'[v] = positions[v]
<1> DEFINE u == Owner(p)
           t == requests[p].order.ticker
           held == [positions[u] EXCEPT ![t] = position]
<1>0. TypeOK /\ LockInv
  BY DEF IInv
<1>1. u \in Users /\ t \in Tickers /\ locks[u] = p
  BY <1>0 DEF Owner, LockInv, Orders
<1>2. /\ accounts \in [Users -> Account] /\ positions \in [Users -> Holdings]
      /\ trades \in [Users -> Ledger] /\ requests \in [Requests -> Request]
      /\ locks \in [Users -> Requests \cup {Free}]
  BY <1>0 DEF TypeOK
<1>3. held \in Holdings
  BY <1>1, <1>2 DEF Holdings
<1>4. positions' = [positions EXCEPT ![u] = held]
  BY <1>1, <1>2 DEF Commit
<1>5. accounts' = [accounts EXCEPT ![u] = account] /\ trades' = [trades EXCEPT ![u] = ledger]
  BY DEF Commit
<1>6. requests' = [requests EXCEPT ![p] = [requests[p] EXCEPT !.pc = "snapshot"]]
  BY DEF Commit
<1>7. [requests[p] EXCEPT !.pc = "snapshot"] \in Request
  BY <1>0, RequestMoves
<1>8. requests'[p].pc = "snapshot" /\ requests'[p].user = requests[p].user
  <2>1. requests[p] \in Request
    BY <1>2
  <2>2. requests'[p] = [requests[p] EXCEPT !.pc = "snapshot"]
    BY <1>2, <1>6
  <2> QED
    BY <2>1, <2>2 DEF Request
<1> HIDE DEF u, t, held
<1>9. requests' \in [Requests -> Request] /\ \A q \in Requests : q # p => requests'[q] = requests[q]
  BY <1>2, <1>6, <1>7
<1>10. locks' = Unlocked(p) /\ locks' \in [Users -> Requests \cup {Free}]
  BY <1>2 DEF Commit, Unlocked
<1>11. TypeOK'
  BY <1>1, <1>2, <1>3, <1>4, <1>5, <1>9, <1>10 DEF TypeOK
<1>12. \A v \in Users : v # u =>
          accounts'[v] = accounts[v] /\ trades'[v] = trades[v] /\ positions'[v] = positions[v]
  BY <1>1, <1>2, <1>4, <1>5
<1>13. LockInv'
  BY <1>0, <1>1, <1>8, <1>9, <1>10, <1>12, LockStep DEF LockInv
<1> QED
  BY <1>1, <1>2, <1>4, <1>5, <1>11, <1>12, <1>13 DEF u, held, t

\* A step that leaves the tables alone keeps the account equal to its trades.
LEMMA TablesUntouched ==
  ASSUME TradesExplainAccount, UNCHANGED <<accounts, positions, trades>>
  PROVE  TradesExplainAccount'
  BY DEF TradesExplainAccount

\* A request that ends or waits for its snapshot, with the tables as they are.
LEMMA RequestStep ==
  ASSUME IInv, NEW p \in Requests, NEW new \in Request, requests' = [requests EXCEPT ![p] = new],
         new.pc \notin {"holdings", "apply"}, new.pc # "idle" => new.user \in Users,
         locks' = Unlocked(p), UNCHANGED <<accounts, positions, trades>>
  PROVE  IInv'
<1>1. requests' \in [Requests -> Request] /\ requests'[p] = new
      /\ \A q \in Requests : q # p => requests'[q] = requests[q]
  BY DEF IInv, TypeOK
<1>2. locks' \in [Users -> Requests \cup {Free}]
  BY DEF IInv, TypeOK, Unlocked
<1>3. TypeOK'
  BY <1>1, <1>2 DEF IInv, TypeOK
<1>4. LockInv'
  BY <1>1, LockStep DEF IInv
<1> QED
  BY <1>3, <1>4, TablesUntouched DEF IInv

LEMMA LockAccountStep ==
  ASSUME IInv, NEW p \in Requests, requests[p].pc \notin {"holdings", "apply"}, NEW u \in Users,
         NEW order \in Orders \cup {NoOrder}, LockAccount(p, u, order)
  PROVE  IInv'
<1> DEFINE start == [[Idle EXCEPT !.pc = "holdings"] EXCEPT !.user = u]
           ordered == [start EXCEPT !.order = order]
           new == [ordered EXCEPT !.account = accounts[u]]
<1>0. TypeOK /\ LockInv
  BY DEF IInv
<1>1. accounts[u] \in Account
  BY <1>0 DEF TypeOK
<1>2. start \in Request /\ start.pc = "holdings" /\ start.user = u
  <2>1. Idle \in Request
    BY <1>0, RequestMoves
  <2>2. start \in Request
    BY <1>0, RequestMoves
  <2>3. [Idle EXCEPT !.pc = "holdings"] \in Request /\ [Idle EXCEPT !.pc = "holdings"].pc = "holdings"
    BY <2>1 DEF Request
  <2> QED
    BY <2>2, <2>3 DEF Request
<1> HIDE DEF start
<1>3. ordered \in Request /\ ordered.pc = "holdings" /\ ordered.user = u
  BY <1>2 DEF Request
<1> HIDE DEF ordered
<1>4. new \in Request /\ new.pc = "holdings" /\ new.user = u /\ new.account = accounts[u]
  BY <1>1, <1>3 DEF Request
<1>5. requests' = [requests EXCEPT ![p] = new]
  BY DEF LockAccount, new, ordered, start
<1> HIDE DEF new
<1>6. requests' \in [Requests -> Request] /\ requests'[p] = new
      /\ \A q \in Requests : q # p => requests'[q] = requests[q]
  BY <1>0, <1>4, <1>5 DEF TypeOK
<1>7. /\ locks' \in [Users -> Requests \cup {Free}] /\ locks'[u] = p /\ locks[u] = Free
      /\ \A v \in Users : v # u => locks'[v] = locks[v]
  BY <1>0 DEF TypeOK, LockAccount
<1>8. UNCHANGED <<accounts, positions, trades>> /\ accounts[u].open
  BY DEF LockAccount
<1>9. TypeOK'
  BY <1>0, <1>6, <1>7, <1>8 DEF TypeOK
<1>10. \A v \in Users : locks[v] # p
  <2> SUFFICES ASSUME NEW v \in Users, locks[v] = p PROVE FALSE
    OBVIOUS
  <2>1. locks[v] # Free
    BY UserPaperAssumption
  <2> QED
    BY <1>0, <2>1 DEF LockInv
<1>11. ASSUME NEW q \in Requests, q # p, requests'[q].pc \in {"holdings", "apply"}
       PROVE  requests'[q] = requests[q] /\ requests[q].user \in Users /\ requests[q].user # u
              /\ locks'[requests[q].user] = q
  <2>1. requests'[q] = requests[q] /\ requests[q].user \in Users /\ locks[requests[q].user] = q
    BY <1>0, <1>6, <1>11 DEF LockInv
  <2>2. q # Free
    BY UserPaperAssumption
  <2> QED
    BY <1>7, <2>1, <2>2
<1>12. \A q \in Requests : requests'[q].pc # "idle" => requests'[q].user \in Users
  BY <1>0, <1>4, <1>6 DEF LockInv
<1>13. \A q \in Requests : requests'[q].pc \in {"holdings", "apply"} =>
         /\ locks'[requests'[q].user] = q
         /\ accounts'[requests'[q].user].open
         /\ requests'[q].account = accounts'[requests'[q].user]
         /\ requests'[q].pc = "apply" => requests'[q].holdings = positions'[requests'[q].user]
  BY <1>0, <1>4, <1>6, <1>7, <1>8, <1>11 DEF LockInv
<1>14. \A v \in Users : locks'[v] # Free =>
         requests'[locks'[v]].user = v /\ requests'[locks'[v]].pc \in {"holdings", "apply"}
  BY <1>0, <1>4, <1>6, <1>7, <1>10 DEF LockInv, TypeOK
<1>15. LockInv'
  BY <1>12, <1>13, <1>14 DEF LockInv
<1> QED
  BY <1>8, <1>9, <1>15, TablesUntouched DEF IInv

-----------------------------------------------------------------------------
\* The fills.

\* An order in hand: it is about a ticker of its owner's account, which it has read.
LEMMA InHand ==
  ASSUME IInv, NEW p \in Requests, requests[p].pc = "apply", requests[p].order # NoOrder
  PROVE  /\ requests[p].order \in Orders
         /\ requests[p].order.ticker \in Tickers
         /\ requests[p].order.quantity \in Nat \ {0} /\ requests[p].order.price \in Nat \ {0}
         /\ Notional(requests[p].order) \in Nat
         /\ Owner(p) \in Users
         /\ requests[p].account = accounts[Owner(p)] /\ requests[p].account \in Account
         /\ requests[p].holdings = positions[Owner(p)]
         /\ requests[p].holdings[requests[p].order.ticker] \in Position
         /\ trades[Owner(p)] \in Ledger
<1>1. requests[p] \in Request /\ requests[p].order \in Orders
  BY DEF IInv, TypeOK, Request
<1>2. requests[p].order.ticker \in Tickers /\ requests[p].order.quantity \in Nat \ {0}
      /\ requests[p].order.price \in Nat \ {0}
  BY <1>1, UserPaperAssumption DEF Orders
<1>3. Notional(requests[p].order) \in Nat
  BY <1>2, RoundingIsNat, UserPaperAssumption DEF Notional
<1>4. Owner(p) \in Users /\ requests[p].account = accounts[Owner(p)]
      /\ requests[p].holdings = positions[Owner(p)]
  BY DEF IInv, LockInv, Owner
<1>5. requests[p].account \in Account /\ positions[Owner(p)] \in Holdings
      /\ trades[Owner(p)] \in Ledger
  BY <1>4 DEF IInv, TypeOK
<1> QED
  BY <1>1, <1>2, <1>3, <1>4, <1>5 DEF Holdings

\* A fill keeps the account equal to its trades when the position moves by what the
\* trade row says.
LEMMA FillStep ==
  ASSUME IInv, NEW p \in Requests, requests[p].pc = "apply", requests[p].order # NoOrder,
         NEW amount \in Int, NEW gain \in Int, NEW change \in Int, NEW paid \in Nat,
         NEW received \in Nat, NEW position \in Position,
         amount = received - paid,
         requests[p].account.cash + amount \in Nat,
         position.quantity = requests[p].holdings[requests[p].order.ticker].quantity + change,
         trades[Owner(p)].count < MaxTrades,
         Commit(p, Credited(requests[p].account, amount, gain), position,
                Booked(trades[Owner(p)], requests[p].order.ticker, change, paid, received, gain))
  PROVE  IInv'
<1> DEFINE u == Owner(p)
           t == requests[p].order.ticker
           had == requests[p].account
           account == Credited(had, amount, gain)
           ledger == Booked(trades[u], t, change, paid, received, gain)
<1>1. /\ requests[p].order \in Orders /\ t \in Tickers /\ u \in Users
      /\ had = accounts[u] /\ had \in Account /\ requests[p].holdings = positions[u]
      /\ trades[u] \in Ledger /\ positions[u] \in Holdings
  BY InHand DEF IInv, TypeOK
<1>2. /\ accounts[u].cash = accounts[u].initial + trades[u].received - trades[u].paid
      /\ accounts[u].realized = trades[u].realized
      /\ \A x \in Tickers : positions[u][x].quantity = trades[u].net[x]
  BY <1>1 DEF IInv, TradesExplainAccount
<1> HIDE DEF u, t, had
<1>3. account.cash <= MaxAmount
  BY DEF Commit, Fits, account, u, t, had
<1>4. account \in Account
  <2>1. account.cash \in 0..MaxAmount
    BY <1>3, UserPaperAssumption DEF Credited, had
  <2> QED
    BY <1>1, <2>1 DEF Account, Credited
<1>5. trades[u].net \in [Tickers -> Nat]
  BY <1>1 DEF Ledger
<1>6. trades[u].net[t] + change \in Nat
  <2>1. positions[u][t].quantity = trades[u].net[t]
    BY <1>1, <1>2
  <2>2. position.quantity \in Nat
    BY DEF Position
  <2> QED
    BY <1>1, <2>1, <2>2 DEF t
<1>7. [trades[u].net EXCEPT ![t] = @ + change] \in [Tickers -> Nat]
  BY <1>5, <1>6
<1>8. ledger \in Ledger
  <2>1. trades[u].count + 1 \in 0..MaxTrades
    BY <1>1, UserPaperAssumption DEF u, Ledger
  <2> QED
    BY <1>1, <1>7, <2>1 DEF Ledger, Booked
<1>9. /\ TypeOK' /\ LockInv' /\ accounts'[u] = account /\ trades'[u] = ledger
      /\ positions'[u] = [positions[u] EXCEPT ![t] = position]
      /\ \A v \in Users : v # u => /\ accounts'[v] = accounts[v] /\ trades'[v] = trades[v]
                                   /\ positions'[v] = positions[v]
  BY <1>1, <1>4, <1>8, CommitStep DEF u, t, had
<1>10. accounts'[u].cash = accounts'[u].initial + trades'[u].received - trades'[u].paid
       /\ accounts'[u].realized = trades'[u].realized
  BY <1>1, <1>2, <1>9 DEF Credited, Booked, Account, Ledger
<1>11. \A x \in Tickers : positions'[u][x].quantity = trades'[u].net[x]
  <2>1. trades'[u].net = [trades[u].net EXCEPT ![t] = @ + change]
    BY <1>9 DEF Booked
  <2>2. \A x \in Tickers : x # t => /\ positions'[u][x] = positions[u][x]
                                    /\ trades'[u].net[x] = trades[u].net[x]
    BY <1>1, <1>5, <1>9, <2>1 DEF Holdings
  <2>3. positions'[u][t] = position /\ trades'[u].net[t] = trades[u].net[t] + change
    BY <1>1, <1>5, <1>9, <2>1 DEF Holdings
  <2>4. position.quantity = trades[u].net[t] + change
    BY <1>1, <1>2 DEF t
  <2> QED
    BY <1>2, <2>2, <2>3, <2>4
<1>12. ASSUME NEW v \in Users
       PROVE  /\ accounts'[v].cash = accounts'[v].initial + trades'[v].received - trades'[v].paid
              /\ accounts'[v].realized = trades'[v].realized
              /\ \A x \in Tickers : positions'[v][x].quantity = trades'[v].net[x]
  <2>1. CASE v = u
    BY <1>10, <1>11, <2>1
  <2>2. CASE v # u
    BY <1>9, <2>2 DEF IInv, TradesExplainAccount
  <2> QED
    BY <2>1, <2>2
<1>13. TradesExplainAccount'
  BY <1>12 DEF TradesExplainAccount
<1> QED
  BY <1>9, <1>13 DEF IInv

LEMMA BuyStep == ASSUME IInv, NEW p \in Requests, Buy(p) PROVE IInv'
<1> DEFINE order == requests[p].order
           n == Notional(order)
           old == requests[p].holdings[order.ticker]
           position == [quantity |-> old.quantity + order.quantity, cost |-> old.cost + n,
                        price |-> order.price]
<1>0. requests[p].pc = "apply" /\ order # NoOrder /\ n <= requests[p].account.cash
      /\ trades[Owner(p)].count < MaxTrades
  BY DEF Buy, NoOrder, Affordable
<1>1. /\ order.quantity \in Nat \ {0} /\ order.price \in Nat /\ n \in Nat
      /\ requests[p].account.cash \in Nat /\ old \in Position
  BY <1>0, InHand, UserPaperAssumption DEF Account
<1>2. position \in Position
  BY <1>1 DEF Position
<1>3. requests[p].account.cash + (-n) \in Nat
  BY <1>0, <1>1
<1>4. Commit(p, Credited(requests[p].account, -n, 0), position,
             Booked(trades[Owner(p)], order.ticker, order.quantity, n, 0, 0))
  BY DEF Buy
<1>5. -n \in Int /\ -n = 0 - n /\ 0 \in Int /\ 0 \in Nat /\ order.quantity \in Int
      /\ position.quantity = old.quantity + order.quantity
  BY <1>1
<1> HIDE DEF n, position
<1> QED
  BY <1>0, <1>1, <1>2, <1>3, <1>4, <1>5, FillStep

LEMMA SellStep == ASSUME IInv, NEW p \in Requests, Sell(p) PROVE IInv'
<1> DEFINE order == requests[p].order
           n == Notional(order)
           old == requests[p].holdings[order.ticker]
           released == Released(old, order.quantity)
           left == old.quantity - order.quantity
           position == IF left = 0 THEN NoPosition
                       ELSE [quantity |-> left, cost |-> old.cost - released, price |-> order.price]
<1>0. requests[p].pc = "apply" /\ order # NoOrder /\ order.quantity <= old.quantity
      /\ trades[Owner(p)].count < MaxTrades
  <2>1. /\ requests[p].pc = "apply" /\ order.side = "sell" /\ order.quantity <= old.quantity
        /\ trades[Owner(p)].count < MaxTrades
    BY DEF Sell
  <2>2. NoOrder.side = "none"
    BY DEF NoOrder
  <2> QED
    BY <2>1, <2>2
<1>1. /\ order.quantity \in Nat \ {0} /\ order.price \in Nat /\ n \in Nat
      /\ requests[p].account.cash \in Nat /\ old \in Position
  BY <1>0, InHand, UserPaperAssumption DEF Account
<1>2. released \in 0..old.cost /\ old.cost \in Nat /\ left \in Nat
  BY <1>0, <1>1, ReleasedIsBounded DEF Position
<1>3. position \in Position /\ position.quantity = left
  BY <1>1, <1>2 DEF Position, NoPosition
<1>4. Commit(p, Credited(requests[p].account, n, n - released), position,
             Booked(trades[Owner(p)], order.ticker, -order.quantity, 0, n, n - released))
  BY DEF Sell
<1>5. n - released \in Int /\ n = n - 0 /\ n \in Int /\ 0 \in Nat /\ -order.quantity \in Int
      /\ requests[p].account.cash + n \in Nat
      /\ position.quantity = old.quantity + (-order.quantity)
  BY <1>1, <1>2, <1>3 DEF Position
<1> HIDE DEF n, released, left, position
<1> QED
  BY <1>0, <1>1, <1>3, <1>4, <1>5, FillStep

LEMMA MarkStep == ASSUME IInv, NEW p \in Requests, Mark(p) PROVE IInv'
<1> DEFINE u == Owner(p)
           order == requests[p].order
           t == order.ticker
           marked == [positions[u][t] EXCEPT !.price = order.price]
           held == [positions[u] EXCEPT ![t] = marked]
           new == [requests[p] EXCEPT !.pc = "snapshot"]
<1>0. TypeOK /\ LockInv /\ requests[p].pc = "apply" /\ order # NoOrder
  BY DEF IInv, Mark, NoOrder
<1>1. u \in Users /\ t \in Tickers /\ order.price \in Nat /\ positions[u] \in Holdings
      /\ positions[u][t] \in Position /\ locks[u] = p
  BY <1>0, InHand DEF IInv, TypeOK, LockInv, Owner
<1>2. marked \in Position /\ marked.quantity = positions[u][t].quantity
  BY <1>1 DEF Position
<1>3. positions' = [positions EXCEPT ![u] = held]
  <2>1. positions' = [positions EXCEPT ![u][t].price = order.price]
    BY DEF Mark
  <2>2. positions \in [Users -> Holdings]
    BY <1>0 DEF TypeOK
  <2> QED
    BY <1>1, <2>1, <2>2
<1> HIDE DEF marked
<1>4. held \in Holdings /\ \A x \in Tickers : held[x].quantity = positions[u][x].quantity
  BY <1>1, <1>2 DEF Holdings
<1> HIDE DEF held
<1>5. positions' \in [Users -> Holdings] /\ positions'[u] = held
      /\ \A v \in Users : v # u => positions'[v] = positions[v]
  BY <1>0, <1>1, <1>3, <1>4 DEF TypeOK
<1>6. requests[p] \in Request /\ new \in Request /\ new.pc = "snapshot"
      /\ new.user = requests[p].user
  <2>1. requests[p] \in Request
    BY <1>0 DEF TypeOK
  <2> QED
    BY <2>1 DEF Request
<1>7. requests' = [requests EXCEPT ![p] = new] /\ locks' = Unlocked(p)
      /\ UNCHANGED <<accounts, trades>>
  BY DEF Mark
<1> HIDE DEF new, u, t, order
<1>8. requests' \in [Requests -> Request] /\ requests'[p] = new
      /\ \A q \in Requests : q # p => requests'[q] = requests[q]
  BY <1>0, <1>6, <1>7 DEF TypeOK
<1>9. TypeOK'
  BY <1>0, <1>5, <1>7, <1>8 DEF TypeOK, Unlocked
<1>10. LockInv'
  BY <1>0, <1>1, <1>5, <1>6, <1>7, <1>8, LockStep DEF LockInv
<1>11. TradesExplainAccount'
  BY <1>1, <1>4, <1>5, <1>7 DEF IInv, TradesExplainAccount
<1> QED
  BY <1>9, <1>10, <1>11 DEF IInv

-----------------------------------------------------------------------------
\* The steps that move a request only.

LEMMA AnswerStep == ASSUME IInv, NEW p \in Requests, Answer(p) PROVE IInv'
<1> DEFINE answered == [requests[p] EXCEPT !.pc = "answered"]
           new == [answered EXCEPT !.ledger = trades[Owner(p)]]
<1>1. requests[p] \in Request /\ Owner(p) \in Users /\ requests[p].user = Owner(p)
      /\ trades[Owner(p)] \in Ledger
  BY DEF IInv, TypeOK, LockInv, Answer, Owner
<1>2. answered \in Request /\ answered.pc = "answered" /\ answered.user = requests[p].user
  BY <1>1 DEF Request
<1>3. requests' = [requests EXCEPT ![p] = new]
  BY DEF Answer
<1> HIDE DEF answered
<1>4. new \in Request /\ new.pc = "answered" /\ new.user = requests[p].user
  BY <1>1, <1>2 DEF Request
<1> HIDE DEF new
<1> QED
  BY <1>1, <1>3, <1>4, RequestStep DEF Answer

LEMMA FinishStep == ASSUME IInv, NEW p \in Requests, Finish(p) PROVE IInv'
<1>1. Idle \in Request
  BY RequestMoves DEF IInv
<1>2. Idle.pc = "idle"
  BY DEF Idle
<1> QED
  BY <1>1, <1>2, RequestStep DEF Finish

LEMMA ViewStep == ASSUME IInv, NEW p \in Requests, NEW u \in Users, View(p, u) PROVE IInv'
<1> DEFINE waiting == [Idle EXCEPT !.pc = "snapshot"]
           new == [waiting EXCEPT !.user = u]
<1>1. new \in Request /\ new.pc = "snapshot" /\ new.user = u
  <2>1. Idle \in Request /\ new \in Request
    BY RequestMoves DEF IInv
  <2>2. waiting \in Request /\ waiting.pc = "snapshot"
    BY <2>1 DEF Request
  <2> QED
    BY <2>1, <2>2 DEF Request
<1>2. requests' = [requests EXCEPT ![p] = new]
  BY DEF View
<1>3. locks' = Unlocked(p)
  BY NothingToUnlock DEF IInv, View
<1> HIDE DEF new
<1> QED
  BY <1>1, <1>2, <1>3, RequestStep DEF View

LEMMA CheckAccountStep ==
  ASSUME IInv, NEW p \in Requests, NEW u \in Users, NEW deposit \in Deposits,
         CheckAccount(p, u, deposit)
  PROVE  IInv'
<1> DEFINE waiting == [Idle EXCEPT !.pc = "insert"]
           owned == [waiting EXCEPT !.user = u]
           new == [owned EXCEPT !.deposit = deposit]
<1>1. owned \in Request /\ owned.pc = "insert" /\ owned.user = u
  <2>1. Idle \in Request /\ owned \in Request
    BY RequestMoves DEF IInv
  <2>2. waiting \in Request /\ waiting.pc = "insert"
    BY <2>1 DEF Request
  <2> QED
    BY <2>1, <2>2 DEF Request
<1>2. requests' = [requests EXCEPT ![p] = new]
  BY DEF CheckAccount
<1> HIDE DEF owned
<1>3. new \in Request /\ new.pc = "insert" /\ new.user = u
  BY <1>1, UserPaperAssumption DEF Request
<1>4. locks' = Unlocked(p)
  BY NothingToUnlock DEF IInv, CheckAccount
<1> HIDE DEF new
<1> QED
  BY <1>2, <1>3, <1>4, RequestStep DEF CheckAccount

LEMMA ReadHoldingsStep == ASSUME IInv, NEW p \in Requests, ReadHoldings(p) PROVE IInv'
<1> DEFINE reading == [requests[p] EXCEPT !.pc = "apply"]
           new == [reading EXCEPT !.holdings = positions[Owner(p)]]
<1>0. TypeOK /\ LockInv /\ requests[p].pc = "holdings"
  BY DEF IInv, ReadHoldings
<1>1. requests[p] \in Request /\ Owner(p) \in Users /\ requests[p].user = Owner(p)
      /\ positions[Owner(p)] \in Holdings
  BY <1>0 DEF TypeOK, LockInv, Owner
<1>2. reading \in Request /\ reading.pc = "apply" /\ reading.user = requests[p].user
      /\ reading.account = requests[p].account
  BY <1>1 DEF Request
<1>3. requests' = [requests EXCEPT ![p] = new]
  BY DEF ReadHoldings
<1> HIDE DEF reading
<1>4. /\ new \in Request /\ new.pc = "apply" /\ new.user = requests[p].user
      /\ new.account = requests[p].account /\ new.holdings = positions[Owner(p)]
  BY <1>1, <1>2 DEF Request
<1> HIDE DEF new
<1>5. requests' \in [Requests -> Request] /\ requests'[p] = new
      /\ \A q \in Requests : q # p => requests'[q] = requests[q]
  BY <1>0, <1>3, <1>4 DEF TypeOK
<1>6. UNCHANGED <<accounts, positions, trades, locks>>
  BY DEF ReadHoldings
<1>7. TypeOK'
  BY <1>0, <1>5, <1>6 DEF TypeOK
<1>8. ASSUME NEW q \in Requests
      PROVE  /\ requests'[q].pc # "idle" => requests'[q].user \in Users
             /\ requests'[q].pc \in {"holdings", "apply"} =>
                  /\ locks[requests'[q].user] = q
                  /\ accounts[requests'[q].user].open
                  /\ requests'[q].account = accounts[requests'[q].user]
             /\ requests'[q].pc = "apply" => requests'[q].holdings = positions[requests'[q].user]
  <2>1. CASE q = p
    BY <1>0, <1>1, <1>4, <1>5, <2>1 DEF LockInv
  <2>2. CASE q # p
    BY <1>0, <1>5, <2>2 DEF LockInv
  <2> QED
    BY <2>1, <2>2
<1>9. ASSUME NEW u \in Users, locks[u] # Free
      PROVE  requests'[locks[u]].user = u /\ requests'[locks[u]].pc \in {"holdings", "apply"}
  <2>1. locks[u] \in Requests /\ requests[locks[u]].user = u
        /\ requests[locks[u]].pc \in {"holdings", "apply"}
    BY <1>0, <1>9 DEF LockInv, TypeOK
  <2>2. CASE locks[u] = p
    BY <1>4, <1>5, <2>1, <2>2
  <2>3. CASE locks[u] # p
    BY <1>5, <2>1, <2>3
  <2> QED
    BY <2>2, <2>3
<1>10. LockInv'
  BY <1>6, <1>8, <1>9 DEF LockInv
<1> QED
  BY <1>6, <1>7, <1>10, TablesUntouched DEF IInv

\* An account that is not open holds nothing; its owner's first row replaces it.
Unopened == \A u \in Users : ~accounts[u].open => accounts[u] = NoAccount

LEMMA InsertAccountStep ==
  ASSUME IInv, Unopened, NEW p \in Requests, InsertAccount(p)
  PROVE  IInv'
<1> DEFINE u == Owner(p)
           deposit == requests[p].deposit
           opened == [open |-> TRUE, initial |-> deposit, cash |-> deposit, realized |-> 0]
           new == [requests[p] EXCEPT !.pc = "snapshot"]
<1>0. TypeOK /\ LockInv /\ requests[p].pc = "insert" /\ UNCHANGED <<positions, trades, locks>>
  BY DEF IInv, InsertAccount
<1>1. requests[p] \in Request /\ u \in Users /\ requests[p].user = u /\ deposit \in 0..MaxAmount
  BY <1>0 DEF TypeOK, LockInv, Owner, Request
<1>2. locks' = Unlocked(p)
  BY <1>0, NothingToUnlock
<1>3. CASE accounts[u].open
  <2>1. requests' = [requests EXCEPT ![p] = Idle] /\ UNCHANGED accounts
    BY <1>3 DEF InsertAccount
  <2>2. Idle \in Request /\ Idle.pc = "idle"
    BY <1>0, RequestMoves DEF Idle
  <2> QED
    BY <1>0, <1>2, <2>1, <2>2, RequestStep
<1>4. CASE ~accounts[u].open
  <2>1. accounts' = [accounts EXCEPT ![u] = opened] /\ requests' = [requests EXCEPT ![p] = new]
    BY <1>4 DEF InsertAccount
  <2>2. opened \in Account
    BY <1>1, UserPaperAssumption DEF Account
  <2>3. new \in Request /\ new.pc = "snapshot" /\ new.user = u
    BY <1>1 DEF Request
  <2>4. opened.cash = opened.initial /\ opened.realized = 0 /\ opened.initial \in Nat
    BY <1>1, UserPaperAssumption
  <2>5. /\ accounts[u].cash = 0 /\ accounts[u].initial = 0 /\ accounts[u].realized = 0
        /\ trades[u].received \in Nat /\ trades[u].paid \in Nat
    BY <1>0, <1>1, <1>4 DEF Unopened, NoAccount, TypeOK, Ledger
  <2> HIDE DEF opened, new, u, deposit
  <2>6. requests' \in [Requests -> Request] /\ requests'[p] = new
        /\ \A q \in Requests : q # p => requests'[q] = requests[q]
    BY <1>0, <2>1, <2>3 DEF TypeOK
  <2>7. accounts' \in [Users -> Account] /\ accounts'[u] = opened
        /\ \A v \in Users : v # u => accounts'[v] = accounts[v]
    BY <1>0, <1>1, <2>1, <2>2 DEF TypeOK
  <2>8. TypeOK'
    BY <1>0, <2>6, <2>7 DEF TypeOK
  <2>9. locks[u] = Free
    <3> SUFFICES ASSUME locks[u] # Free PROVE FALSE
      OBVIOUS
    <3>1. locks[u] \in Requests /\ requests[locks[u]].user = u
          /\ requests[locks[u]].pc \in {"holdings", "apply"}
      BY <1>0, <1>1 DEF LockInv, TypeOK
    <3> QED
      BY <1>0, <1>4, <3>1 DEF LockInv
  <2>10. \A v \in Users : locks[v] \notin {p, Free} =>
           accounts'[v] = accounts[v] /\ positions'[v] = positions[v]
    BY <1>0, <2>7, <2>9
  <2>11. LockInv'
    BY <1>0, <1>1, <1>2, <2>3, <2>6, <2>10, LockStep
  <2>12. TradesExplainAccount'
    <3>1. \A v \in Users :
            /\ accounts[v].cash = accounts[v].initial + trades[v].received - trades[v].paid
            /\ accounts[v].realized = trades[v].realized
      BY DEF IInv, TradesExplainAccount
    <3>2. accounts'[u].cash = accounts'[u].initial + trades'[u].received - trades'[u].paid
          /\ accounts'[u].realized = trades'[u].realized
      BY <1>0, <1>1, <2>4, <2>5, <2>7, <3>1
    <3>3. \A v \in Users :
            /\ accounts'[v].cash = accounts'[v].initial + trades'[v].received - trades'[v].paid
            /\ accounts'[v].realized = trades'[v].realized
      BY <1>0, <2>7, <3>1, <3>2
    <3> QED
      BY <1>0, <3>3 DEF IInv, TradesExplainAccount
  <2> QED
    BY <2>8, <2>11, <2>12 DEF IInv
<1> QED
  BY <1>3, <1>4

-----------------------------------------------------------------------------
\* The theorems.

\* How a step may change an account: opened once, and never reset.
Grows(u) ==
    /\ ~accounts'[u].open => accounts'[u] = accounts[u]
    /\ accounts[u].open =>
         /\ accounts'[u].open
         /\ accounts'[u].initial = accounts[u].initial
         /\ trades'[u].paid >= trades[u].paid
         /\ trades'[u].received >= trades[u].received

LEMMA UntouchedGrows ==
  ASSUME TypeOK, UNCHANGED <<accounts, trades>>
  PROVE  \A u \in Users : Grows(u)
  BY DEF Grows, TypeOK, Ledger

LEMMA FillGrows ==
  ASSUME IInv, NEW p \in Requests, requests[p].pc = "apply", requests[p].order # NoOrder,
         NEW amount \in Int, NEW gain \in Int, NEW change \in Int, NEW paid \in Nat,
         NEW received \in Nat, NEW position,
         Commit(p, Credited(requests[p].account, amount, gain), position,
                Booked(trades[Owner(p)], requests[p].order.ticker, change, paid, received, gain))
  PROVE  \A u \in Users : Grows(u)
<1> DEFINE o == Owner(p)
           account == Credited(requests[p].account, amount, gain)
           ledger == Booked(trades[o], requests[p].order.ticker, change, paid, received, gain)
<1>1. o \in Users /\ requests[p].account = accounts[o] /\ accounts[o].open
      /\ trades[o] \in Ledger
  BY DEF IInv, LockInv, TypeOK, Owner
<1>2. accounts' = [accounts EXCEPT ![o] = account] /\ trades' = [trades EXCEPT ![o] = ledger]
  BY DEF Commit
<1>3. account.open /\ account.initial = accounts[o].initial
  BY <1>1 DEF Credited
<1>4. ledger.paid >= trades[o].paid /\ ledger.received >= trades[o].received
  BY <1>1 DEF Booked, Ledger
<1> HIDE DEF account, ledger, o
<1>5. /\ accounts'[o] = account /\ trades'[o] = ledger
      /\ \A u \in Users : u # o => accounts'[u] = accounts[u] /\ trades'[u] = trades[u]
  BY <1>1, <1>2 DEF IInv, TypeOK
<1>6. ASSUME NEW u \in Users PROVE Grows(u)
  <2>1. CASE u = o
    BY <1>3, <1>4, <1>5, <2>1 DEF Grows
  <2>2. CASE u # o
    BY <1>5, <2>2 DEF Grows, IInv, TypeOK, Ledger
  <2> QED
    BY <2>1, <2>2
<1> QED
  BY <1>6

LEMMA AccountsGrow ==
  ASSUME IInv, [Next]_vars
  PROVE  \A u \in Users : Grows(u)
<1>0. TypeOK
  BY DEF IInv
<1>1. CASE UNCHANGED vars
  BY <1>0, <1>1, UntouchedGrows DEF vars
<1>2. ASSUME NEW p \in Requests, Buy(p) PROVE \A u \in Users : Grows(u)
  <2> DEFINE n == Notional(requests[p].order)
  <2>1. requests[p].pc = "apply" /\ requests[p].order # NoOrder
    BY <1>2 DEF Buy, NoOrder
  <2>2. n \in Nat /\ -n \in Int /\ 0 \in Int /\ 0 \in Nat /\ requests[p].order.quantity \in Int
    BY <2>1, InHand
  <2> QED
    BY <1>2, <2>1, <2>2, FillGrows DEF Buy
<1>3. ASSUME NEW p \in Requests, Sell(p) PROVE \A u \in Users : Grows(u)
  <2> DEFINE order == requests[p].order
             n == Notional(order)
             old == requests[p].holdings[order.ticker]
             gain == n - Released(old, order.quantity)
  <2>1. requests[p].pc = "apply" /\ order # NoOrder /\ order.quantity <= old.quantity
    BY <1>3 DEF Sell, NoOrder
  <2>2. n \in Nat /\ n \in Int /\ 0 \in Nat /\ -order.quantity \in Int
        /\ order.quantity \in Nat \ {0} /\ old \in Position
    BY <2>1, InHand
  <2>3. gain \in Int
    BY <2>1, <2>2, ReleasedIsBounded DEF Position
  <2> QED
    BY <1>3, <2>1, <2>2, <2>3, FillGrows DEF Sell
<1>4. ASSUME NEW p \in Requests, InsertAccount(p) PROVE \A u \in Users : Grows(u)
  <2>1. CASE UNCHANGED accounts
    BY <1>0, <1>4, <2>1, UntouchedGrows DEF InsertAccount
  <2>2. ASSUME ~accounts[Owner(p)].open,
               accounts' = [accounts EXCEPT ![Owner(p)] =
                 [open |-> TRUE, initial |-> requests[p].deposit, cash |-> requests[p].deposit,
                  realized |-> 0]],
               UNCHANGED trades
        PROVE  \A u \in Users : Grows(u)
    BY <1>0, <2>2 DEF Grows, TypeOK, Ledger
  <2> QED
    BY <1>4, <2>1, <2>2 DEF InsertAccount
<1>5. ASSUME NEW p \in Requests, Mark(p) \/ Answer(p) \/ Finish(p) \/ ReadHoldings(p)
                                 \/ BeginSnapshot(p)
      PROVE  \A u \in Users : Grows(u)
  BY <1>0, <1>5, UntouchedGrows DEF Mark, Answer, Finish, ReadHoldings, BeginSnapshot, LockAccount
<1>6. ASSUME NEW p \in Requests, NEW u \in Users,
             (\E deposit \in Deposits : CheckAccount(p, u, deposit)) \/ View(p, u)
                \/ (\E order \in Orders : Begin(p, u, order))
      PROVE  \A v \in Users : Grows(v)
  BY <1>0, <1>6, UntouchedGrows DEF CheckAccount, View, Begin, LockAccount
<1> QED
  BY <1>1, <1>2, <1>3, <1>4, <1>5, <1>6 DEF Next

LEMMA InvStep == IInv /\ Unopened /\ [Next]_vars => IInv' /\ Unopened'
<1> SUFFICES ASSUME IInv, Unopened, [Next]_vars PROVE IInv' /\ Unopened'
  OBVIOUS
<1>1. Unopened'
  BY AccountsGrow DEF Unopened, Grows
<1>2. CASE UNCHANGED vars
  <2>1. TypeOK'
    BY <1>2 DEF vars, IInv, TypeOK
  <2>2. LockInv'
    BY <1>2 DEF vars, IInv, LockInv
  <2>3. TradesExplainAccount'
    BY <1>2, TablesUntouched DEF vars, IInv
  <2> QED
    BY <1>1, <2>1, <2>2, <2>3 DEF IInv
<1>3. ASSUME NEW p \in Requests, NEW u \in Users, NEW deposit \in Deposits,
             CheckAccount(p, u, deposit)
      PROVE  IInv'
  BY <1>3, CheckAccountStep
<1>4. ASSUME NEW p \in Requests, NEW u \in Users, NEW order \in Orders, Begin(p, u, order)
      PROVE  IInv'
  <2>1. requests[p].pc \notin {"holdings", "apply"} /\ LockAccount(p, u, order)
        /\ order \in Orders \cup {NoOrder}
    BY <1>4 DEF Begin
  <2> QED
    BY <2>1, LockAccountStep
<1>5. ASSUME NEW p \in Requests, NEW u \in Users, View(p, u) PROVE IInv'
  BY <1>5, ViewStep
<1>6. ASSUME NEW p \in Requests, InsertAccount(p) PROVE IInv'
  BY <1>6, InsertAccountStep
<1>7. ASSUME NEW p \in Requests, BeginSnapshot(p) PROVE IInv'
  <2>1. requests[p].pc \notin {"holdings", "apply"} /\ LockAccount(p, Owner(p), NoOrder)
        /\ NoOrder \in Orders \cup {NoOrder}
    BY <1>7 DEF BeginSnapshot
  <2>2. Owner(p) \in Users
    BY <1>7 DEF BeginSnapshot, IInv, LockInv, Owner
  <2> QED
    BY <2>1, <2>2, LockAccountStep
<1>8. ASSUME NEW p \in Requests, ReadHoldings(p) PROVE IInv'
  BY <1>8, ReadHoldingsStep
<1>9. ASSUME NEW p \in Requests, Buy(p) PROVE IInv'
  BY <1>9, BuyStep
<1>10. ASSUME NEW p \in Requests, Sell(p) PROVE IInv'
  BY <1>10, SellStep
<1>11. ASSUME NEW p \in Requests, Mark(p) PROVE IInv'
  BY <1>11, MarkStep
<1>12. ASSUME NEW p \in Requests, Answer(p) PROVE IInv'
  BY <1>12, AnswerStep
<1>13. ASSUME NEW p \in Requests, Finish(p) PROVE IInv'
  BY <1>13, FinishStep
<1> QED
  BY <1>1, <1>2, <1>3, <1>4, <1>5, <1>6, <1>7, <1>8, <1>9, <1>10, <1>11, <1>12, <1>13 DEF Next

LEMMA Invariant == Spec => [](IInv /\ Unopened)
<1>1. Init => IInv /\ Unopened
  BY InvInit DEF Init, Unopened
<1> QED
  BY <1>1, InvStep, PTL DEF Spec

\* No account, position or request of any user ever leaves its type: above all, cash and
\* holdings are never negative, whatever requests run at once.
THEOREM NeverOverdrawn == Spec => []TypeOK
<1>1. IInv => TypeOK
  BY DEF IInv
<1> QED
  BY <1>1, Invariant, PTL

\* Whoever holds the row lock works on the account as it is.
THEOREM LockedReadsAreCurrent == Spec => []LockInv
<1>1. IInv => LockInv
  BY DEF IInv
<1> QED
  BY <1>1, Invariant, PTL

\* Cash, realized gains and every holding are what the trade rows add up to.
THEOREM TradesAlwaysExplainAccount == Spec => []TradesExplainAccount
<1>1. IInv => TradesExplainAccount
  BY DEF IInv
<1> QED
  BY <1>1, Invariant, PTL

\* No step resets an open account or takes back a trade.
THEOREM NeverReset == Spec => AccountsAreNotReset
<1>1. IInv /\ [Next]_vars =>
        [\A u \in Users : accounts[u].open =>
           /\ accounts'[u].open
           /\ accounts'[u].initial = accounts[u].initial
           /\ trades'[u].paid >= trades[u].paid
           /\ trades'[u].received >= trades[u].received]_vars
  BY AccountsGrow DEF Grows
<1> QED
  BY <1>1, Invariant, PTL DEF Spec, AccountsAreNotReset

-----------------------------------------------------------------------------
\* The books.

\* What the positions cost in all is a natural number, and changes with one position by
\* as much as that does.
LEMMA CostType == ASSUME NEW held \in Holdings PROVE CostOf(held) \in Nat
<1> DEFINE f == [t \in Tickers |-> held[t].cost]
<1>1. \A t \in Tickers : f[t] \in Nat /\ f[t] \in Int
  BY DEF Holdings, Position
<1>2. SumFunctionOnSet(f, Tickers) \in Nat
  <2> HIDE DEF f
  <2> QED
    BY <1>1, SumType, UserPaperAssumption
<1> QED
  BY <1>2 DEF CostOf, SumFunction

LEMMA CostOfOneMore ==
  ASSUME NEW held \in Holdings, NEW after \in Holdings, NEW t \in Tickers,
         \A x \in Tickers \ {t} : after[x] = held[x]
  PROVE  CostOf(after) = CostOf(held) - held[t].cost + after[t].cost
<1> DEFINE f == [x \in Tickers |-> held[x].cost]
           g == [x \in Tickers |-> after[x].cost]
<1>1. \A x \in Tickers : f[x] \in Int /\ g[x] \in Int
  BY DEF Holdings, Position
<1>2. \A x \in Tickers \ {t} : f[x] = g[x]
  OBVIOUS
<1>3. f[t] = held[t].cost /\ g[t] = after[t].cost
  OBVIOUS
<1>4. CostOf(held) = SumFunctionOnSet(f, Tickers) /\ CostOf(after) = SumFunctionOnSet(g, Tickers)
  BY DEF CostOf, SumFunction
<1> HIDE DEF f, g
<1>5. SumFunctionOnSet(g, Tickers) = SumFunctionOnSet(f, Tickers) - f[t] + g[t]
  BY <1>1, <1>2, SumChange, UserPaperAssumption
<1> QED
  BY <1>3, <1>4, <1>5

LEMMA NothingCostsNothing == CostOf(NoHoldings) = 0
<1> DEFINE f == [t \in Tickers |-> 0]
<1>1. CostOf(NoHoldings) = SumFunctionOnSet(f, Tickers)
  BY DEF CostOf, SumFunction, NoHoldings, NoPosition
<1>2. \A t \in Tickers : f[t] = 0
  OBVIOUS
<1> HIDE DEF f
<1> QED
  BY <1>1, <1>2, SumZero, UserPaperAssumption
\* A fill takes from the cash, or adds to it, what the cost of the position and the
\* realized gain account for.
LEMMA FillBalances ==
  ASSUME IInv, BooksBalance, NEW p \in Requests, requests[p].pc = "apply",
         requests[p].order # NoOrder, NEW amount \in Int, NEW gain \in Int,
         NEW position \in Position, NEW ledger,
         position.cost = requests[p].holdings[requests[p].order.ticker].cost - amount + gain,
         Commit(p, Credited(requests[p].account, amount, gain), position, ledger)
  PROVE  BooksBalance'
<1> DEFINE u == Owner(p)
           t == requests[p].order.ticker
           account == Credited(requests[p].account, amount, gain)
           held == [positions[u] EXCEPT ![t] = position]
<1>1. /\ t \in Tickers /\ u \in Users /\ accounts[u] \in Account /\ positions[u] \in Holdings
      /\ requests[p].account = accounts[u] /\ requests[p].holdings = positions[u]
  BY InHand DEF IInv, TypeOK
<1>2. held \in Holdings /\ held[t] = position /\ \A x \in Tickers \ {t} : held[x] = positions[u][x]
  BY <1>1 DEF Holdings
<1>3. CostOf(held) = CostOf(positions[u]) - positions[u][t].cost + position.cost
  BY <1>1, <1>2, CostOfOneMore
<1>4. /\ account.cash = accounts[u].cash + amount /\ account.initial = accounts[u].initial
      /\ account.realized = accounts[u].realized + gain
  BY <1>1 DEF Credited
<1>5. accounts' = [accounts EXCEPT ![u] = account] /\ positions' = [positions EXCEPT ![u][t] = position]
  BY DEF Commit
<1>6. position.cost = positions[u][t].cost - amount + gain
  BY <1>1
<1>7. CostOf(positions[u]) \in Nat /\ positions[u][t].cost \in Nat
  BY <1>1, CostType DEF Holdings, Position
<1>8. accounts[u].cash + CostOf(positions[u]) = accounts[u].initial + accounts[u].realized
  BY <1>1 DEF BooksBalance
<1>9. /\ accounts'[u] = account /\ positions'[u] = held
      /\ \A v \in Users : v # u => accounts'[v] = accounts[v] /\ positions'[v] = positions[v]
  BY <1>1, <1>5 DEF IInv, TypeOK
<1>10. accounts[u].cash \in Int /\ accounts[u].initial \in Int /\ accounts[u].realized \in Int
  BY <1>1 DEF Account
<1> HIDE DEF u, t, account, held
<1>11. accounts'[u].cash + CostOf(positions'[u]) = accounts'[u].initial + accounts'[u].realized
  <2> DEFINE cost == CostOf(positions[u])
             after == CostOf(held)
  <2>1. after = cost - positions[u][t].cost + position.cost
    BY <1>3
  <2>2. after = cost - amount + gain
    <3>1. cost \in Int /\ positions[u][t].cost \in Int
      BY <1>7
    <3> HIDE DEF after, cost
    <3> QED
      BY <1>6, <2>1, <3>1
  <2>3. cost \in Int /\ accounts[u].cash + cost = accounts[u].initial + accounts[u].realized
    BY <1>7, <1>8
  <2>4. CostOf(positions'[u]) = after
    BY <1>9
  <2> DEFINE cash == accounts[u].cash
             initial == accounts[u].initial
             realized == accounts[u].realized
  <2>a. cash \in Int /\ initial \in Int /\ realized \in Int /\ cash + cost = initial + realized
    BY <1>10, <2>3
  <2>b. account.cash = cash + amount /\ account.initial = initial /\ account.realized = realized + gain
    BY <1>4
  <2> HIDE DEF after, cost, cash, initial, realized
  <2>5. account.cash + after = account.initial + account.realized
    <3>1. (cash + amount) + after = initial + (realized + gain)
      BY <2>a, <2>2, <2>3
    <3> QED
      BY <2>b, <3>1
  <2> QED
    BY <1>9, <2>4, <2>5
<1>12. ASSUME NEW v \in Users, v # u
       PROVE  accounts'[v].cash + CostOf(positions'[v]) = accounts'[v].initial + accounts'[v].realized
  BY <1>9, <1>12 DEF BooksBalance
<1> QED
  BY <1>11, <1>12 DEF BooksBalance

LEMMA UntouchedBalance ==
  ASSUME BooksBalance, UNCHANGED <<accounts, positions>>
  PROVE  BooksBalance'
BY DEF BooksBalance, CostOf

LEMMA BalanceStep == IInv /\ Unopened /\ BooksBalance /\ [Next]_vars => BooksBalance'
<1> SUFFICES ASSUME IInv, Unopened, BooksBalance, [Next]_vars PROVE BooksBalance'
  OBVIOUS
<1>1. CASE UNCHANGED vars
  BY <1>1, UntouchedBalance DEF vars
<1>2. ASSUME NEW p \in Requests, Buy(p) PROVE BooksBalance'
  <2> DEFINE order == requests[p].order
             n == Notional(order)
             old == requests[p].holdings[order.ticker]
             position == [quantity |-> old.quantity + order.quantity, cost |-> old.cost + n,
                          price |-> order.price]
  <2>1. requests[p].pc = "apply" /\ order # NoOrder
    BY <1>2 DEF Buy, NoOrder
  <2>2. order.quantity \in Nat /\ order.price \in Nat /\ n \in Nat /\ old \in Position
    BY <2>1, InHand
  <2>3. position \in Position /\ position.cost = old.cost + n /\ old.cost \in Nat
    BY <2>2 DEF Position
  <2>4. Commit(p, Credited(requests[p].account, -n, 0), position,
               Booked(trades[Owner(p)], order.ticker, order.quantity, n, 0, 0))
    BY <1>2 DEF Buy
  <2> HIDE DEF n, position
  <2>5. -n \in Int /\ 0 \in Int /\ position.cost = old.cost - (-n) + 0
    BY <2>2, <2>3
  <2> QED
    BY <2>1, <2>3, <2>4, <2>5, FillBalances
<1>3. ASSUME NEW p \in Requests, Sell(p) PROVE BooksBalance'
  <2> DEFINE order == requests[p].order
             n == Notional(order)
             old == requests[p].holdings[order.ticker]
             released == Released(old, order.quantity)
             left == old.quantity - order.quantity
             position == IF left = 0 THEN NoPosition
                         ELSE [quantity |-> left, cost |-> old.cost - released, price |-> order.price]
  <2>1. requests[p].pc = "apply" /\ order # NoOrder /\ order.quantity <= old.quantity
    <3>1. requests[p].pc = "apply" /\ order.side = "sell" /\ order.quantity <= old.quantity
      BY <1>3 DEF Sell
    <3> QED
      BY <3>1 DEF NoOrder
  <2>2. order.quantity \in Nat \ {0} /\ order.price \in Nat /\ n \in Nat /\ old \in Position
    BY <2>1, InHand
  <2>3. released \in 0..old.cost /\ old.cost \in Nat /\ left \in Nat
    BY <2>1, <2>2, ReleasedIsBounded DEF Position
  <2>4. left = 0 => released = old.cost
    BY <2>2, <2>3 DEF Released, Position
  <2>5. position \in Position /\ position.cost = old.cost - released
    BY <2>2, <2>3, <2>4 DEF Position, NoPosition
  <2>6. Commit(p, Credited(requests[p].account, n, n - released), position,
               Booked(trades[Owner(p)], order.ticker, -order.quantity, 0, n, n - released))
    BY <1>3 DEF Sell
  <2> HIDE DEF n, position, released, left
  <2>7. n \in Int /\ n - released \in Int /\ position.cost = old.cost - n + (n - released)
    BY <2>2, <2>3, <2>5
  <2> QED
    BY <2>1, <2>5, <2>6, <2>7, FillBalances
<1>4. ASSUME NEW p \in Requests, Mark(p) PROVE BooksBalance'
  <2> DEFINE u == Owner(p)
             t == requests[p].order.ticker
             price == requests[p].order.price
             held == [positions[u] EXCEPT ![t].price = price]
  <2>1. requests[p].pc = "apply" /\ requests[p].order # NoOrder
    BY <1>4 DEF Mark, NoOrder
  <2>2. t \in Tickers /\ u \in Users /\ positions[u] \in Holdings /\ price \in Nat
    BY <2>1, InHand DEF IInv, TypeOK
  <2>3. held \in Holdings /\ \A x \in Tickers : held[x].cost = positions[u][x].cost
    BY <2>2 DEF Holdings, Position
  <2>4. positions' = [positions EXCEPT ![u] = held] /\ UNCHANGED accounts
    <3>1. positions' = [positions EXCEPT ![u][t].price = price] /\ UNCHANGED accounts
      BY <1>4 DEF Mark
    <3> QED
      BY <2>2, <3>1 DEF IInv, TypeOK
  <2>5. CostOf(held) = CostOf(positions[u])
    <3>1. [x \in Tickers |-> held[x].cost] = [x \in Tickers |-> positions[u][x].cost]
      BY <2>3
    <3> QED
      BY <3>1 DEF CostOf
  <2> HIDE DEF u, held
  <2>6. \A v \in Users : positions'[v] = IF v = u THEN held ELSE positions[v]
    BY <2>2, <2>4 DEF IInv, TypeOK
  <2>7. \A v \in Users : CostOf(positions'[v]) = CostOf(positions[v])
    BY <2>5, <2>6
  <2> QED
    BY <2>4, <2>7 DEF BooksBalance
<1>5. ASSUME NEW p \in Requests, InsertAccount(p) PROVE BooksBalance'
  <2>1. CASE UNCHANGED accounts
    BY <1>5, <2>1, UntouchedBalance DEF InsertAccount
  <2>2. CASE ~UNCHANGED accounts
    <3> DEFINE u == Owner(p)
               opened == [open |-> TRUE, initial |-> requests[p].deposit,
                          cash |-> requests[p].deposit, realized |-> 0]
    <3>1. ~accounts[u].open /\ accounts' = [accounts EXCEPT ![u] = opened] /\ UNCHANGED positions
          /\ requests[p].pc = "insert"
      BY <1>5, <2>2 DEF InsertAccount
    <3>2. u \in Users /\ requests[p].deposit \in Int
      BY <3>1, UserPaperAssumption DEF IInv, TypeOK, LockInv, Owner, Request
    <3>3. CostOf(positions[u]) = 0
      <4>1. accounts[u].cash + CostOf(positions[u]) = accounts[u].initial + accounts[u].realized
            /\ accounts[u] = NoAccount
        BY <3>1, <3>2 DEF BooksBalance, Unopened
      <4>2. CostOf(positions[u]) \in Int
        BY <3>2, CostType DEF IInv, TypeOK
      <4> QED
        BY <4>1, <4>2 DEF NoAccount
    <3>4. \A v \in Users : accounts'[v] = IF v = u THEN opened ELSE accounts[v]
      BY <3>1, <3>2 DEF IInv, TypeOK
    <3>5. opened.cash + 0 = opened.initial + opened.realized
      BY <3>2
    <3> HIDE DEF opened, u
    <3>6. ASSUME NEW v \in Users
          PROVE  accounts'[v].cash + CostOf(positions'[v]) = accounts'[v].initial + accounts'[v].realized
      BY <3>1, <3>3, <3>4, <3>5 DEF BooksBalance
    <3> QED
      BY <3>6 DEF BooksBalance
  <2> QED
    BY <2>1, <2>2
<1>6. ASSUME NEW p \in Requests, Answer(p) \/ Finish(p) \/ ReadHoldings(p) \/ BeginSnapshot(p)
      PROVE  BooksBalance'
  BY <1>6, UntouchedBalance DEF Answer, Finish, ReadHoldings, BeginSnapshot, LockAccount
<1>7. ASSUME NEW p \in Requests, NEW u \in Users,
             (\E deposit \in Deposits : CheckAccount(p, u, deposit)) \/ View(p, u)
                \/ (\E order \in Orders : Begin(p, u, order))
      PROVE  BooksBalance'
  BY <1>7, UntouchedBalance DEF CheckAccount, View, Begin, LockAccount
<1> QED
  BY <1>1, <1>2, <1>3, <1>4, <1>5, <1>6, <1>7 DEF Next

\* A request comes to be answered only by reading the trades of the account it holds.
LEMMA AnsweredNow ==
  ASSUME IInv, [Next]_vars, NEW p \in Requests, requests'[p].pc = "answered"
  PROVE  \/ requests'[p] = requests[p]
         \/ /\ requests[p].pc = "apply"
            /\ requests'[p].account = requests[p].account
            /\ requests'[p].holdings = requests[p].holdings
            /\ requests'[p].ledger = trades[Owner(p)]
<1>0. requests \in [Requests -> Request] /\ requests[p] \in Request
  BY DEF IInv, TypeOK
<1>1. CASE UNCHANGED vars
  BY <1>1 DEF vars
<1>2. ASSUME NEW q \in Requests, Answer(q)
      PROVE  requests'[p] = requests[p] \/ /\ requests[p].pc = "apply"
                                           /\ requests'[p].account = requests[p].account
                                           /\ requests'[p].holdings = requests[p].holdings
                                           /\ requests'[p].ledger = trades[Owner(p)]
  BY <1>0, <1>2 DEF Answer, Request
<1>3. ASSUME NEW q \in Requests, NEW new, requests' = [requests EXCEPT ![q] = new], new.pc # "answered"
      PROVE  requests'[p] = requests[p]
  BY <1>0, <1>3
<1>4. ASSUME NEW q \in Requests, NEW pc, pc # "answered",
             requests' = [requests EXCEPT ![q].pc = pc]
      PROVE  requests'[p] = requests[p]
  BY <1>0, <1>4 DEF Request
<1>5. ASSUME NEW q \in Requests, ReadHoldings(q)
      PROVE  requests'[p] = requests[p]
  BY <1>0, <1>5 DEF ReadHoldings, Request
<1>6. ASSUME NEW q \in Requests, NEW u, NEW order, LockAccount(q, u, order)
      PROVE  requests'[p] = requests[p]
  BY <1>0, <1>6 DEF LockAccount, Idle
<1>7. ASSUME NEW q \in Requests, NEW u, NEW deposit, CheckAccount(q, u, deposit)
      PROVE  requests'[p] = requests[p]
  BY <1>0, <1>7 DEF CheckAccount, Idle
<1>8. ASSUME NEW q \in Requests, NEW u, View(q, u)
      PROVE  requests'[p] = requests[p]
  BY <1>0, <1>8 DEF View, Idle
<1>9. ASSUME NEW q \in Requests, InsertAccount(q) \/ Finish(q)
      PROVE  requests'[p] = requests[p]
  <2>1. Idle.pc # "answered"
    BY DEF Idle
  <2> QED
    BY <1>3, <1>4, <1>9, <2>1 DEF InsertAccount, Finish
<1>10. ASSUME NEW q \in Requests, Buy(q) \/ Sell(q) \/ Mark(q)
       PROVE  requests'[p] = requests[p]
  <2>1. requests' = [requests EXCEPT ![q].pc = "snapshot"]
    BY <1>10 DEF Buy, Sell, Mark, Commit
  <2> QED
    BY <1>4, <2>1
<1> QED
  BY <1>1, <1>2, <1>5, <1>6, <1>7, <1>8, <1>9, <1>10 DEF Next, Begin, BeginSnapshot

LEMMA AnswersStep ==
  IInv /\ BooksBalance /\ AnswersAreCoherent /\ [Next]_vars => AnswersAreCoherent'
<1> SUFFICES ASSUME IInv, BooksBalance, AnswersAreCoherent, [Next]_vars,
                    NEW p \in Requests, requests'[p].pc = "answered"
             PROVE  /\ requests'[p].account.cash + CostOf(requests'[p].holdings)
                         = requests'[p].account.initial + requests'[p].account.realized
                    /\ requests'[p].account.cash = requests'[p].account.initial
                         + requests'[p].ledger.received - requests'[p].ledger.paid
                    /\ \A t \in Tickers : requests'[p].holdings[t].quantity = requests'[p].ledger.net[t]
  BY DEF AnswersAreCoherent
<1>1. CASE requests'[p] = requests[p]
  <2>1. requests[p].pc = "answered"
    BY <1>1
  <2> QED
    BY <1>1, <2>1 DEF AnswersAreCoherent
<1>2. CASE /\ requests[p].pc = "apply"
           /\ requests'[p].account = requests[p].account
           /\ requests'[p].holdings = requests[p].holdings
           /\ requests'[p].ledger = trades[Owner(p)]
  <2>1. /\ Owner(p) \in Users
        /\ requests[p].account = accounts[Owner(p)] /\ requests[p].holdings = positions[Owner(p)]
    BY <1>2 DEF IInv, LockInv, Owner
  <2> QED
    BY <1>2, <2>1 DEF BooksBalance, IInv, TradesExplainAccount
<1> QED
  BY <1>1, <1>2, AnsweredNow

\* The books of every account balance to the last unit, and every answer is one moment of them.
BooksInv == BooksBalance /\ AnswersAreCoherent

LEMMA BooksHold == Spec => []BooksInv
<1>1. Init => BooksInv
  <2> SUFFICES ASSUME Init PROVE BooksInv
    OBVIOUS
  <2>1. BooksBalance
    BY NothingCostsNothing DEF Init, BooksBalance, NoAccount
  <2>2. \A p \in Requests : requests[p].pc = "idle"
    BY DEF Init, Idle
  <2> QED
    BY <2>1, <2>2 DEF BooksInv, AnswersAreCoherent
<1>2. IInv /\ Unopened /\ BooksInv /\ [Next]_vars => BooksInv'
  BY BalanceStep, AnswersStep DEF BooksInv
<1>3. QED
  BY <1>1, <1>2, Invariant, PTL DEF Spec

\* No unit of money is lost or made, for any users, orders and interleavings, whatever
\* rounding does: cash and cost are always deposit and realized gain.
THEOREM BooksAlwaysBalance == Spec => []BooksBalance
<1>1. BooksInv => BooksBalance
  BY DEF BooksInv
<1>2. QED
  BY <1>1, BooksHold, PTL

\* The three statements of an answer show one moment of the account.
THEOREM AnswersAlwaysCoherent == Spec => []AnswersAreCoherent
<1>1. BooksInv => AnswersAreCoherent
  BY DEF BooksInv
<1>2. QED
  BY <1>1, BooksHold, PTL

-----------------------------------------------------------------------------
\* The sleeves of the forward test.  Their module's sums and cardinalities, which it has
\* from the library itself, are those of this one.

LEMMA SumsAreOne == \A f : Forward!SumFunction(f) = SumFunctionOnSet(f, DOMAIN f)
BY DEF Forward!SumFunction, Forward!SumFunctionOnSet, Forward!FoldFunctionOnSet,
   Forward!MapThenFoldSet,
       SumFunctionOnSet, FoldFunctionOnSet, MapThenFoldSet

LEMMA CardinalitiesAreOne == \A S : Forward!Cardinality(S) = Cardinality(S)
BY DEF Forward!Cardinality, Cardinality

LEMMA TickersAreFinite == IsFiniteSet(Tickers)
BY SleevesAssumption DEF Forward!PaperSleevesAssumption, Forward!IsFiniteSet, IsFiniteSet

\* Books: sets of lots, at most one for a ticker.

OnePerTicker(held) == \A k, l \in held : k.ticker = l.ticker => k = l

LEMMA BookIsFinite ==
  ASSUME NEW held \in Forward!Lots, OnePerTicker(held)
  PROVE  IsFiniteSet(held)
<1> DEFINE f == [l \in held |-> l.ticker]
<1>1. f \in [held -> Tickers] /\ \A k, l \in held : f[k] = f[l] => k = l
  BY DEF Forward!Lots, Forward!Lot, OnePerTicker
<1>2. f \in Injection(held, Tickers)
  BY <1>1 DEF Injection, IsInjective
<1> HIDE DEF f
<1> QED
  BY <1>2, FS_Injection, TickersAreFinite

\* What a lot counts for a ticker.
Of(all, t) == [l \in all |-> IF l.ticker = t THEN l.shares ELSE 0]

LEMMA SharesAsPart ==
  ASSUME NEW all \in Forward!Lots, IsFiniteSet(all), NEW part \in SUBSET all, NEW t
  PROVE  /\ Forward!SharesIn(part, t) = SumFunctionOnSet(Of(all, t), part)
         /\ \A l \in all : Of(all, t)[l] \in Nat /\ Of(all, t)[l] \in Int
         /\ IsFiniteSet(part)
         /\ Forward!SharesIn(part, t) \in Nat
<1>1. IsFiniteSet(part)
  BY FS_Subset
<1>2. \A l \in all : Of(all, t)[l] \in Nat /\ Of(all, t)[l] \in Int
  BY DEF Forward!Lots, Forward!Lot, Of
<1>3. Forward!SharesIn(part, t) = SumFunctionOnSet(Of(part, t), part)
  BY SumsAreOne DEF Forward!SharesIn, Of
<1>4. \A l \in part : Of(part, t)[l] = Of(all, t)[l]
  BY DEF Of
<1>5. Forward!SharesIn(part, t) = SumFunctionOnSet(Of(all, t), part)
  BY <1>1, <1>3, <1>4, SumSame
<1>6. SumFunctionOnSet(Of(all, t), part) \in Nat
  BY <1>1, <1>2, SumType
<1> QED
  BY <1>1, <1>2, <1>5, <1>6

LEMMA SharesSplit ==
  ASSUME NEW held \in Forward!Lots, IsFiniteSet(held), NEW sold \in SUBSET held, NEW t
  PROVE  Forward!SharesIn(held, t) = Forward!SharesIn(held \ sold, t) + Forward!SharesIn(sold, t)
<1>1. (held \ sold) \cup sold = held /\ (held \ sold) \cap sold = {}
  OBVIOUS
<1>2. /\ Forward!SharesIn(held, t) = SumFunctionOnSet(Of(held, t), held)
      /\ Forward!SharesIn(held \ sold, t) = SumFunctionOnSet(Of(held, t), held \ sold)
      /\ Forward!SharesIn(sold, t) = SumFunctionOnSet(Of(held, t), sold)
      /\ IsFiniteSet(sold) /\ IsFiniteSet(held \ sold)
      /\ \A l \in held : Of(held, t)[l] \in Int
  BY SharesAsPart
<1>3. SumFunctionOnSet(Of(held, t), (held \ sold) \cup sold) =
        SumFunctionOnSet(Of(held, t), held \ sold) + SumFunctionOnSet(Of(held, t), sold)
  BY <1>1, <1>2, SumUnion
<1> QED
  BY <1>1, <1>2, <1>3

LEMMA SharesJoin ==
  ASSUME NEW kept \in Forward!Lots, IsFiniteSet(kept), NEW bought \in Forward!Lots, IsFiniteSet(bought),
         kept \cap bought = {}, NEW t
  PROVE  Forward!SharesIn(kept \cup bought, t) = Forward!SharesIn(kept, t) + Forward!SharesIn(bought, t)
<1> DEFINE all == kept \cup bought
<1>1. all \in Forward!Lots /\ IsFiniteSet(all)
  BY FS_Union DEF Forward!Lots
<1>2. Forward!SharesIn(all, t) = Forward!SharesIn(all \ bought, t) + Forward!SharesIn(bought, t)
  BY <1>1, SharesSplit
<1>3. all \ bought = kept
  OBVIOUS
<1> QED
  BY <1>2, <1>3

\* What lots are worth.
LEMMA WorthType ==
  ASSUME NEW held \in Forward!Lots, IsFiniteSet(held), NEW price \in [Tickers -> Nat]
  PROVE  Forward!Worth(held, price) \in Nat
<1> DEFINE f == [l \in held |-> l.shares * price[l.ticker]]
<1>1. \A l \in held : f[l] \in Nat /\ f[l] \in Int
  BY DEF Forward!Lots, Forward!Lot
<1>2. Forward!Worth(held, price) = SumFunctionOnSet(f, held)
  BY SumsAreOne DEF Forward!Worth
<1> HIDE DEF f
<1> QED
  BY <1>1, <1>2, SumType

\* An equal share of the cash buys no more than that share.
LEMMA ShareFits ==
  ASSUME NEW cash \in Nat, NEW n \in Nat \ {0}, NEW p \in Nat \ {0}
  PROVE  Forward!Shares(cash, n, p) \in Nat /\ Forward!Shares(cash, n, p) * p <= cash \div n
<1> DEFINE d == n * p
           q == cash \div d
           b == cash \div n
<1>1. d \in Nat \ {0}
  OBVIOUS
<1>2. q \in Nat /\ d * q <= cash
  <2> HIDE DEF d
  <2>1. q \in Nat /\ cash % d \in 0..(d - 1) /\ cash = d * q + (cash % d)
    BY <1>1
  <2> HIDE DEF q
  <2> QED
    BY <1>1, <2>1
<1>3. b \in Nat /\ cash < n * b + n
  OBVIOUS
<1> HIDE DEF q, b
<1>4. n * (q * p) = d * q
  BY <1>2
<1>5. n * (q * p) < n * (b + 1)
  BY <1>2, <1>3, <1>4
<1>6. q * p < b + 1
  BY <1>2, <1>3, <1>5
<1> QED
  BY <1>2, <1>3, <1>6 DEF Forward!Shares, q, b, d

-----------------------------------------------------------------------------
\* The jobs.

LEMMA JobTypes ==
  /\ Forward!NoRun \in Forward!Run /\ Forward!NoMarking \in Forward!Marking
  /\ \A run \in Forward!Run : /\ Sleeves[run.at] \in Forward!Names
                      /\ Forward!Advance(run) \in Forward!Run /\ Forward!Advance(run).pc \in {"idle", "load"}
                      /\ Forward!Advance(run).day \in {1, run.day}
  /\ \A job \in Forward!Marking : Sleeves[job.at] \in Forward!Names /\ Forward!NextMark(job) \in Forward!Marking
<1>1. /\ Sleeves \in Seq(Forward!Names) /\ DOMAIN Sleeves = 1..Len(Sleeves) /\ Len(Sleeves) \in Nat
      /\ 1 \in DOMAIN Sleeves /\ \A i \in DOMAIN Sleeves : Sleeves[i] \in Forward!Names
  BY SleevesAssumption DEF Forward!PaperSleevesAssumption
<1>2. 1 \in Forward!Days
  BY SleevesAssumption DEF Forward!PaperSleevesAssumption, Forward!Days
<1>3. Forward!NoRun \in Forward!Run
  BY <1>1, <1>2 DEF Forward!NoRun, Forward!Run, Forward!Lots
<1>4. Forward!NoMarking \in Forward!Marking
  BY <1>1, <1>2 DEF Forward!NoMarking, Forward!Marking, Forward!Lots
<1>5. ASSUME NEW run \in Forward!Run
      PROVE  /\ Sleeves[run.at] \in Forward!Names
             /\ Forward!Advance(run) \in Forward!Run /\ Forward!Advance(run).pc \in {"idle", "load"}
             /\ Forward!Advance(run).day \in {1, run.day}
  <2>1. Sleeves[run.at] \in Forward!Names
    BY <1>1 DEF Forward!Run
  <2>2. CASE run.at = Len(Sleeves)
    <3> DEFINE new == [Forward!NoRun EXCEPT !.errors = run.errors, !.hit = run.hit]
    <3>1. new \in Forward!Run /\ new.pc = "idle" /\ new.day = 1
      BY <1>1, <1>2 DEF Forward!NoRun, Forward!Run, Forward!Lots
    <3> QED
      BY <2>1, <2>2, <3>1 DEF Forward!Advance
  <2>3. CASE run.at # Len(Sleeves)
    <3> DEFINE new == [run EXCEPT !.pc = "load", !.at = @ + 1, !.cash = 0, !.lots = {}]
    <3>1. run.at + 1 \in DOMAIN Sleeves
      BY <1>1, <2>3 DEF Forward!Run
    <3>2. new \in Forward!Run /\ new.pc = "load" /\ new.day = run.day
      BY <3>1 DEF Forward!Run, Forward!Lots
    <3> QED
      BY <2>1, <2>3, <3>2 DEF Forward!Advance
  <2> QED
    BY <2>2, <2>3
<1>6. ASSUME NEW job \in Forward!Marking
      PROVE  Sleeves[job.at] \in Forward!Names /\ Forward!NextMark(job) \in Forward!Marking
  <2>1. Sleeves[job.at] \in Forward!Names
    BY <1>1 DEF Forward!Marking
  <2>2. CASE job.at = Len(Sleeves)
    BY <1>4, <2>1, <2>2 DEF Forward!NextMark
  <2>3. CASE job.at # Len(Sleeves)
    <3>1. job.at + 1 \in DOMAIN Sleeves
      BY <1>1, <2>3 DEF Forward!Marking
    <3>2. [Forward!NoMarking EXCEPT !.pc = "orders", !.at = job.at + 1, !.day = job.day, !.broken = job.broken] \in Forward!Marking
      BY <3>1 DEF Forward!Marking, Forward!NoMarking, Forward!Lots
    <3> QED
      BY <2>1, <2>3, <3>2 DEF Forward!NextMark
  <2> QED
    BY <2>2, <2>3
<1> QED
  BY <1>3, <1>4, <1>5, <1>6

-----------------------------------------------------------------------------
\* The invariant: the two properties of the tables, and why a run keeps them. What it is about
\* to trade on is what the tables say, and no run of its week has traded; with no debt
\* the cash it shares out is a natural number.
TradeInv ==
  /\ weekly.day <= env.day
  /\ weekly.pc = "trade" => /\ weekly.cash = Forward!Cash(Forward!Sleeve)
                            /\ weekly.lots = lots[Forward!Sleeve]
                            /\ orders[Forward!Sleeve].runs[Forward!Week(weekly.day)] = 0

SleevesInv == Forward!TypeOK /\ Forward!BookMatchesOrders /\ Forward!WeekTradesOnce /\ TradeInv /\ Forward!Solvent

LEMMA SleevesInit == Forward!Init => SleevesInv
<1> SUFFICES ASSUME Forward!Init PROVE SleevesInv
  OBVIOUS
<1>1. /\ Forward!NoOrders \in Forward!Orders /\ {} \in Forward!Lots /\ Forward!Unmarked \in Forward!Mark /\ 1 \in Forward!Days
      /\ {MaxMarkings, MaxFaults, MaxCrashes} \subseteq Nat
  BY SleevesAssumption DEF Forward!PaperSleevesAssumption, Forward!NoOrders, Forward!Orders,
     Forward!Lots, Forward!Unmarked, Forward!Mark, Forward!Days
<1>2. Forward!TypeOK
  BY <1>1, JobTypes DEF Forward!Init, Forward!TypeOK
<1>3. \A t \in Tickers : Forward!SharesIn({}, t) = 0
  <2>1. ASSUME NEW t \in Tickers PROVE Forward!SharesIn({}, t) = SumFunctionOnSet(Of({}, t), {})
    BY SumsAreOne DEF Forward!SharesIn, Of
  <2> QED
    BY <2>1, SumEmpty
<1>4. Forward!BookMatchesOrders
  BY <1>3 DEF Forward!Init, Forward!BookMatchesOrders, Forward!NoOrders
<1>5. Forward!WeekTradesOnce
  BY DEF Forward!Init, Forward!WeekTradesOnce, Forward!NoOrders
<1>6. TradeInv
  BY DEF Forward!Init, TradeInv, Forward!NoRun
<1>7. Forward!Solvent
  BY SleevesAssumption DEF Forward!PaperSleevesAssumption, Forward!Init, Forward!Solvent,
     Forward!Cash, Forward!NoOrders
<1> QED
  BY <1>2, <1>4, <1>5, <1>6, <1>7 DEF SleevesInv

\* A step that leaves the tables of the weekly run alone.
LEMMA TablesKept ==
  ASSUME SleevesInv, Forward!TypeOK', TradeInv', UNCHANGED <<orders, lots>>
  PROVE  SleevesInv'
BY DEF SleevesInv, Forward!BookMatchesOrders, Forward!WeekTradesOnce, Forward!Solvent, Forward!Cash

LEMMA SleeveTradeStep ==
  ASSUME SleevesInv, NEW targets \in SUBSET Tickers, NEW price \in [Tickers -> SleevePrices \cup {0}],
         Forward!Trade(targets, price)
  PROVE  SleevesInv'
<1> DEFINE s == Forward!Sleeve
           week == Forward!Week(weekly.day)
           sold == {l \in Forward!Aged(s) : price[l.ticker] > 0}
           kept == Forward!Kept(sold)
           cash == weekly.cash + Forward!Worth(sold, price)
           priced == {t \in Forward!Fresh(targets, kept) : price[t] > 0}
           size == [t \in priced |-> Forward!Shares(cash, Forward!Cardinality(priced), price[t])]
           asked == {t \in priced : size[t] >= 1}
           Cost(some) == Forward!SumFunction([t \in some |-> size[t] * price[t]])
           Bought(some) == {[ticker |-> t, shares |-> size[t], since |-> weekly.day] : t \in some}
           New(some) ==
             [spent |-> orders[s].spent + Cost(some),
              earned |-> orders[s].earned + Forward!Worth(sold, price),
              net |-> [t \in Tickers |-> orders[s].net[t] + Forward!SharesIn(Bought(some), t) - Forward!SharesIn(sold, t)],
              runs |-> [orders[s].runs EXCEPT ![week] = IF sold \cup asked = {} THEN @ ELSE @ + 1]]
<1>1. /\ orders \in [Forward!Names -> Forward!Orders] /\ lots \in [Forward!Names -> Forward!Lots] /\ weekly \in Forward!Run
      /\ s \in Forward!Names /\ weekly.pc = "trade" /\ weekly.day \in Forward!Days
  BY JobTypes DEF SleevesInv, Forward!TypeOK, Forward!Trade, Forward!Sleeve, Forward!Run
<1>2. PICK rejected \in SUBSET asked :
        /\ lots' = [lots EXCEPT ![s] = kept \cup Bought(asked \ rejected)]
        /\ orders' = [orders EXCEPT ![s] = New(asked \ rejected)]
  BY DEF Forward!Trade
<1>3. weekly' = Forward!Advance(weekly) /\ UNCHANGED <<marks, daily, env>>
  BY DEF Forward!Trade
<1> DEFINE filled == asked \ rejected
           bought == Bought(filled)
           book == lots[s]
           old == orders[s]
           new == New(filled)
<1>15. lots' = [lots EXCEPT ![s] = kept \cup bought] /\ orders' = [orders EXCEPT ![s] = new]
  <2> HIDE DEF New, Bought, kept, s, asked
  <2> QED
    BY <1>2
<1>4. /\ weekly.lots = book /\ weekly.cash = Forward!Cash(s) /\ old.runs[week] = 0
      /\ book \in Forward!Lots /\ OnePerTicker(book) /\ IsFiniteSet(book)
      /\ \A t \in Tickers : Forward!SharesIn(book, t) = old.net[t]
  BY <1>1, BookIsFinite DEF SleevesInv, TradeInv, Forward!BookMatchesOrders, OnePerTicker
<1>5. sold \in SUBSET book /\ kept = book \ sold
  BY <1>4 DEF Forward!Aged, Forward!Kept
<1>6. price \in [Tickers -> Nat]
  <2>1. SleevePrices \cup {0} \subseteq Nat
    BY SleevesAssumption DEF Forward!PaperSleevesAssumption
  <2> QED
    BY <2>1
<1>7. sold \in Forward!Lots /\ kept \in Forward!Lots /\ IsFiniteSet(sold) /\ IsFiniteSet(kept)
  <2>1. sold \in Forward!Lots /\ kept \in Forward!Lots
    BY <1>4, <1>5 DEF Forward!Lots
  <2>2. IsFiniteSet(sold) /\ IsFiniteSet(kept)
    BY <1>4, <1>5, FS_Subset
  <2> QED
    BY <2>1, <2>2
<1>8. Forward!Worth(sold, price) \in Nat /\ weekly.cash \in Nat /\ cash \in Nat
  <2>1. Forward!Worth(sold, price) \in Nat
    <3> HIDE DEF sold
    <3> QED
      BY <1>6, <1>7, WorthType
  <2>2. weekly.cash \in Nat
    BY <1>1 DEF Forward!Run
  <2> QED
    BY <2>1, <2>2
<1>9. priced \subseteq Tickers /\ IsFiniteSet(priced) /\ Cardinality(priced) \in Nat
      /\ \A t \in priced : price[t] \in Nat \ {0} /\ ~ \E l \in kept : l.ticker = t
  <2>1. priced \subseteq Tickers /\ \A t \in priced : price[t] \in Nat \ {0} /\ ~ \E l \in kept : l.ticker = t
    BY <1>6 DEF Forward!Fresh
  <2>2. IsFiniteSet(priced) /\ Cardinality(priced) \in Nat
    <3> HIDE DEF priced
    <3> QED
      BY <2>1, FS_Subset, FS_CardinalityType, TickersAreFinite
  <2> QED
    BY <2>1, <2>2
<1>10. \A t \in priced : /\ size[t] \in Nat
                         /\ size[t] * price[t] \in Nat
                         /\ size[t] * price[t] <= cash \div Cardinality(priced)
  <2>1. ASSUME NEW t \in priced
        PROVE  /\ Forward!Shares(cash, Cardinality(priced), price[t]) \in Nat
               /\ Forward!Shares(cash, Cardinality(priced), price[t]) * price[t] <= cash \div Cardinality(priced)
    <3>1. Cardinality(priced) # 0
      <4> HIDE DEF priced
      <4> QED
        BY <1>9, FS_EmptySet
    <3>2. price[t] \in Nat \ {0} /\ Cardinality(priced) \in Nat \ {0}
      BY <1>9, <3>1
    <3> HIDE DEF cash, priced
    <3> QED
      BY <1>8, <3>2, ShareFits
  <2>2. \A t \in priced : size[t] = Forward!Shares(cash, Cardinality(priced), price[t])
    BY CardinalitiesAreOne
  <2> HIDE DEF cash, priced, size
  <2> QED
    BY <1>9, <2>1, <2>2
<1>11. filled \in SUBSET priced /\ IsFiniteSet(filled) /\ \A t \in filled : size[t] \in Nat \ {0}
  <2>1. \A t \in asked : t \in priced /\ size[t] >= 1
    OBVIOUS
  <2>2. \A t \in filled : t \in asked
    <3> HIDE DEF asked
    <3> QED
      OBVIOUS
  <2>3. filled \in SUBSET priced /\ \A t \in filled : size[t] \in Nat \ {0}
    <3>1. ASSUME NEW t \in filled PROVE t \in priced /\ size[t] \in Nat \ {0}
      <4>1. t \in priced /\ size[t] >= 1
        BY <2>1, <2>2
      <4>2. size[t] \in Nat
        BY <1>10, <4>1
      <4> HIDE DEF filled, asked, priced, size
      <4> QED
        BY <4>1, <4>2
    <3> HIDE DEF filled, asked, priced, size
    <3> QED
      BY <3>1
  <2>4. IsFiniteSet(filled)
    <3> HIDE DEF filled, priced
    <3> QED
      BY <1>9, <2>3, FS_Subset
  <2> QED
    BY <2>3, <2>4
<1> HIDE DEF s, week, sold, kept, priced, size, asked, filled, book, old, new, New
\* The purchases cost no more than the cash there is.
<1>12. Cost(filled) \in Nat /\ Cost(filled) <= cash
  <2> DEFINE f == [t \in filled |-> size[t] * price[t]]
             n == Cardinality(priced)
             m == Cardinality(filled)
             b == cash \div n
  <2>1. Cost(filled) = SumFunctionOnSet(f, filled)
    BY SumsAreOne
  <2>2. \A t \in filled : f[t] \in Nat /\ f[t] \in Int /\ f[t] <= b
    BY <1>10, <1>11
  <2>3. CASE filled = {}
    <3>1. SumFunctionOnSet(f, filled) = 0
      BY <2>3, SumEmpty
    <3> QED
      BY <1>8, <2>1, <3>1
  <2>4. CASE filled # {}
    <3>1. m <= n /\ m \in Nat /\ n \in Nat \ {0}
      <4>1. m \in Nat /\ m # 0
        BY <1>11, <2>4, FS_CardinalityType, FS_EmptySet
      <4>2. m <= n
        BY <1>9, <1>11, FS_Subset
      <4> HIDE DEF m, n
      <4> QED
        BY <1>9, <4>1, <4>2 DEF n
    <3>2. b \in Nat /\ n * b <= cash
      <4> HIDE DEF n, cash
      <4> QED
        BY <1>8, <3>1
    <3> HIDE DEF b, f
    <3>3. SumFunctionOnSet(f, filled) \in Nat
      BY <1>11, <2>2, SumType
    <3>4. SumFunctionOnSet(f, filled) <= m * b
      BY <1>11, <2>2, <3>2, SumBounded
    <3> HIDE DEF n, m, cash
    <3>5. m * b <= n * b /\ m * b \in Nat /\ n * b \in Nat
      BY <3>1, <3>2
    <3>6. SumFunctionOnSet(f, filled) <= cash
      BY <1>8, <3>2, <3>3, <3>4, <3>5
    <3> QED
      BY <2>1, <3>3, <3>6
  <2> QED
    BY <2>3, <2>4
\* What is bought is a lot for every ticker filled, none of which is held.
<1>13. bought \in Forward!Lots /\ IsFiniteSet(bought) /\ bought \cap kept = {}
  <2> DEFINE lot == [t \in filled |-> [ticker |-> t, shares |-> size[t], since |-> weekly.day]]
  <2>1. bought = {lot[t] : t \in filled}
    OBVIOUS
  <2>2. IsFiniteSet(bought)
    <3> HIDE DEF lot
    <3>1. DOMAIN lot = filled
      BY DEF lot
    <3> QED
      BY <1>11, <2>1, <3>1, ValuesAreFinite
  <2>3. bought \in Forward!Lots
    BY <1>1, <1>9, <1>11 DEF Forward!Lots, Forward!Lot
  <2>4. bought \cap kept = {}
    BY <1>9, <1>11
  <2> QED
    BY <2>2, <2>3, <2>4
<1>14. OnePerTicker(kept \cup bought)
  <2>1. ASSUME NEW k \in kept \cup bought, NEW l \in kept \cup bought, k.ticker = l.ticker PROVE k = l
    <3>1. CASE k \in kept /\ l \in kept
      BY <1>4, <1>5, <2>1, <3>1 DEF OnePerTicker
    <3>2. CASE k \in bought /\ l \in bought
      BY <2>1, <3>2
    <3>3. CASE k \in kept /\ l \in bought
      BY <1>9, <1>11, <2>1, <3>3
    <3>4. CASE k \in bought /\ l \in kept
      BY <1>9, <1>11, <2>1, <3>4
    <3> QED
      BY <3>1, <3>2, <3>3, <3>4
  <2> QED
    BY <2>1 DEF OnePerTicker
<1> HIDE DEF bought, Bought, Cost, cash
<1> USE DEF New, new, old
<1>16. kept \cup bought \in Forward!Lots
  BY <1>7, <1>13 DEF Forward!Lots
<1>17. \A t \in Tickers : new.net[t] = Forward!SharesIn(kept \cup bought, t) /\ new.net[t] \in Nat
  <2>1. ASSUME NEW t \in Tickers
        PROVE  old.net[t] + Forward!SharesIn(bought, t) - Forward!SharesIn(sold, t) = Forward!SharesIn(kept \cup bought, t)
    <3>1. Forward!SharesIn(book, t) = Forward!SharesIn(kept, t) + Forward!SharesIn(sold, t)
      BY <1>4, <1>5, SharesSplit
    <3>2. Forward!SharesIn(kept \cup bought, t) = Forward!SharesIn(kept, t) + Forward!SharesIn(bought, t)
      BY <1>7, <1>13, SharesJoin
    <3>3. Forward!SharesIn(kept, t) \in Nat /\ Forward!SharesIn(sold, t) \in Nat /\ Forward!SharesIn(bought, t) \in Nat
      <4>1. Forward!SharesIn(kept, t) \in Nat
        BY <1>7, SharesAsPart
      <4>2. Forward!SharesIn(sold, t) \in Nat
        BY <1>7, SharesAsPart
      <4>3. Forward!SharesIn(bought, t) \in Nat
        BY <1>13, SharesAsPart
      <4> QED
        BY <4>1, <4>2, <4>3
    <3>4. old.net[t] = Forward!SharesIn(kept, t) + Forward!SharesIn(sold, t)
      BY <1>4, <3>1
    <3> QED
      BY <3>2, <3>3, <3>4
  <2>3. \A t \in Tickers : new.net[t] = old.net[t] + Forward!SharesIn(bought, t) - Forward!SharesIn(sold, t)
    BY DEF bought
  <2>2. \A t \in Tickers : Forward!SharesIn(kept \cup bought, t) \in Nat
    <3>1. IsFiniteSet(kept \cup bought)
      BY <1>7, <1>13, FS_Union
    <3> QED
      BY <1>16, <3>1, SharesAsPart
  <2> HIDE DEF new
  <2> QED
    BY <2>1, <2>2, <2>3
<1>18. old \in Forward!Orders /\ old.spent \in Nat /\ old.earned \in Nat /\ old.runs \in [Forward!Weeks -> Nat]
       /\ Forward!Cash(s) = StartingCash - old.spent + old.earned
  BY <1>1 DEF old, Forward!Orders, Forward!Cash
<1>19. week \in Forward!Weeks
  BY <1>1 DEF week, Forward!Weeks
<1>20. /\ new.runs \in [Forward!Weeks -> Nat]
       /\ new.runs[week] <= 1
       /\ \A w \in Forward!Weeks : w # week => new.runs[w] = old.runs[w]
  BY <1>4, <1>18, <1>19
<1>21. new \in Forward!Orders
  <2>1. new.spent \in Nat /\ new.earned \in Nat
    BY <1>8, <1>12, <1>18
  <2>2. new.net \in [Tickers -> Nat]
    BY <1>17
  <2> QED
    BY <1>20, <2>1, <2>2 DEF Forward!Orders
<1>22. StartingCash - new.spent + new.earned >= 0
  <2>1. cash = Forward!Cash(s) + Forward!Worth(sold, price)
    BY <1>4 DEF cash
  <2>2. new.spent = old.spent + Cost(filled) /\ new.earned = old.earned + Forward!Worth(sold, price)
    OBVIOUS
  <2>3. StartingCash \in Nat
    BY SleevesAssumption DEF Forward!PaperSleevesAssumption
  <2> HIDE DEF new
  <2> QED
    BY <1>8, <1>12, <1>18, <2>1, <2>2, <2>3
<1> HIDE DEF new
<1>23. \A q \in Forward!Names : /\ lots'[q] = IF q = s THEN kept \cup bought ELSE lots[q]
                        /\ orders'[q] = IF q = s THEN new ELSE orders[q]
  BY <1>1, <1>15
<1>24. Forward!TypeOK'
  <2>1. lots' \in [Forward!Names -> Forward!Lots] /\ orders' \in [Forward!Names -> Forward!Orders]
    BY <1>1, <1>15, <1>16, <1>21
  <2>2. weekly' \in Forward!Run
    BY <1>1, <1>3, JobTypes
  <2> QED
    BY <1>3, <2>1, <2>2 DEF SleevesInv, Forward!TypeOK
<1>25. Forward!BookMatchesOrders'
  BY <1>14, <1>17, <1>23 DEF SleevesInv, Forward!BookMatchesOrders, OnePerTicker
<1>26. Forward!WeekTradesOnce'
  <2>1. ASSUME NEW q \in Forward!Names, NEW w \in Forward!Weeks PROVE orders'[q].runs[w] <= 1
    <3>1. orders[q].runs[w] <= 1
      BY DEF SleevesInv, Forward!WeekTradesOnce
    <3>2. CASE q # s
      BY <1>23, <3>1, <3>2
    <3>3. CASE q = s
      BY <1>20, <1>23, <3>1, <3>3 DEF old
    <3> QED
      BY <3>2, <3>3
  <2> QED
    BY <2>1 DEF Forward!WeekTradesOnce
<1>27. TradeInv'
  <2>1. weekly'.pc # "trade" /\ weekly'.day \in {1, weekly.day} /\ env'.day = env.day
    BY <1>1, <1>3, JobTypes
  <2>2. 1 <= env.day /\ weekly.day <= env.day
    BY SleevesAssumption DEF SleevesInv, Forward!TypeOK, TradeInv, Forward!Days,
       Forward!PaperSleevesAssumption
  <2> QED
    BY <2>1, <2>2 DEF TradeInv
<1>28. Forward!Solvent'
  <2>1. ASSUME NEW q \in Forward!Names PROVE Forward!Cash(q)' >= 0
    <3>1. CASE q = s
      BY <1>22, <1>23, <3>1 DEF Forward!Cash
    <3>2. CASE q # s
      BY <1>23, <3>2 DEF Forward!Cash, SleevesInv, Forward!Solvent
    <3> QED
      BY <3>1, <3>2
  <2> QED
    BY <2>1 DEF Forward!Solvent
<1> QED
  BY <1>24, <1>25, <1>26, <1>27, <1>28 DEF SleevesInv

\* A step of the weekly run that trades nothing.
LEMMA RunStep ==
  ASSUME SleevesInv, UNCHANGED <<orders, lots, marks, daily>>, weekly' \in Forward!Run, weekly'.pc # "trade",
         weekly'.day \in {1, weekly.day, env.day},
         env' \in [day : {env.day}, markings : 0..MaxMarkings, faults : 0..MaxFaults, crashes : 0..MaxCrashes]
  PROVE  SleevesInv'
<1>1. Forward!TypeOK /\ TradeInv /\ 1 <= env.day /\ env.day \in Forward!Days
  BY SleevesAssumption DEF SleevesInv, Forward!TypeOK, Forward!Days, Forward!PaperSleevesAssumption
<1>2. Forward!TypeOK'
  BY <1>1 DEF Forward!TypeOK
<1>3. TradeInv'
  <2>1. weekly'.day <= env.day /\ env'.day = env.day
    BY <1>1 DEF TradeInv, Forward!Days
  <2> QED
    BY <2>1 DEF TradeInv
<1> QED
  BY <1>2, <1>3, TablesKept

\* A step of the daily job, which only reads the weekly run's tables.
LEMMA MarkingStep ==
  ASSUME SleevesInv, UNCHANGED <<orders, lots, weekly>>, daily' \in Forward!Marking, marks' \in [Forward!Names -> Forward!Mark],
         env' \in [day : {env.day}, markings : 0..MaxMarkings, faults : 0..MaxFaults, crashes : 0..MaxCrashes]
  PROVE  SleevesInv'
<1>1. Forward!TypeOK'
  BY DEF SleevesInv, Forward!TypeOK
<1>2. TradeInv'
  BY DEF SleevesInv, TradeInv, Forward!Sleeve, Forward!Cash
<1> QED
  BY <1>1, <1>2, TablesKept

\* What a fault does to the rest of the world.
LEMMA FaultTypes ==
  ASSUME Forward!TypeOK, Forward!Fault \/ UNCHANGED env
  PROVE  env' \in [day : {env.day}, markings : 0..MaxMarkings, faults : 0..MaxFaults, crashes : 0..MaxCrashes]
BY SleevesAssumption DEF Forward!TypeOK, Forward!Fault, Forward!PaperSleevesAssumption

LEMMA LoadStep == ASSUME SleevesInv, Forward!Load PROVE SleevesInv'
<1>1. Forward!TypeOK /\ TradeInv /\ Forward!Solvent /\ weekly \in Forward!Run /\ Forward!Sleeve \in Forward!Names
  BY JobTypes DEF SleevesInv, Forward!TypeOK, Forward!Sleeve
<1>2. UNCHANGED <<orders, lots, marks, daily, env>> /\ UNCHANGED env
  BY DEF Forward!Load
<1>3. CASE weekly' = Forward!Advance(weekly)
  <2>1. weekly' \in Forward!Run /\ weekly'.pc # "trade" /\ weekly'.day \in {1, weekly.day, env.day}
    BY <1>1, <1>3, JobTypes
  <2> QED
    BY <1>1, <1>2, <2>1, FaultTypes, RunStep
<1>4. CASE ~Forward!AlreadyRan(Forward!Sleeve, Forward!Week(weekly.day))
  <2> DEFINE new == [weekly EXCEPT !.pc = "trade", !.cash = Forward!Cash(Forward!Sleeve), !.lots = lots[Forward!Sleeve]]
  <2>1. weekly' = new
    BY <1>4 DEF Forward!Load
  <2>2. Forward!Cash(Forward!Sleeve) \in Nat /\ lots[Forward!Sleeve] \in Forward!Lots
    <3>1. orders[Forward!Sleeve].spent \in Nat /\ orders[Forward!Sleeve].earned \in Nat /\ StartingCash \in Nat
      BY <1>1, SleevesAssumption DEF Forward!TypeOK, Forward!Orders, Forward!PaperSleevesAssumption
    <3>2. Forward!Cash(Forward!Sleeve) >= 0
      BY <1>1 DEF Forward!Solvent
    <3>3. Forward!Cash(Forward!Sleeve) \in Int
      BY <3>1 DEF Forward!Cash
    <3> QED
      BY <1>1, <3>2, <3>3 DEF Forward!TypeOK
  <2>3. /\ new \in Forward!Run /\ new.at = weekly.at /\ new.day = weekly.day
        /\ new.cash = Forward!Cash(Forward!Sleeve) /\ new.lots = lots[Forward!Sleeve]
    BY <1>1, <2>2 DEF Forward!Run
  <2>4. orders[Forward!Sleeve].runs[Forward!Week(weekly.day)] = 0
    <3>1. weekly.day \in Forward!Days /\ Forward!Week(weekly.day) \in Forward!Weeks
      BY <1>1 DEF Forward!Run, Forward!Weeks
    <3>2. orders[Forward!Sleeve].runs[Forward!Week(weekly.day)] \in Nat
      BY <1>1, <3>1 DEF Forward!TypeOK, Forward!Orders
    <3> QED
      BY <1>4, <3>2 DEF Forward!AlreadyRan
  <2> HIDE DEF new
  <2>5. Forward!Sleeve' = Forward!Sleeve /\ Forward!Cash(Forward!Sleeve)' = Forward!Cash(Forward!Sleeve)
    BY <1>2, <2>1, <2>3 DEF Forward!Sleeve, Forward!Cash
  <2>6. Forward!TypeOK'
    BY <1>1, <1>2, <2>1, <2>3 DEF Forward!TypeOK
  <2>7. TradeInv'
    BY <1>1, <1>2, <2>1, <2>3, <2>4, <2>5 DEF TradeInv
  <2> QED
    BY <1>2, <2>6, <2>7, TablesKept
<1> QED
  BY <1>3, <1>4 DEF Forward!Load

LEMMA SleevesStep == SleevesInv /\ [Forward!Next]_(Forward!vars) => SleevesInv'
<1> SUFFICES ASSUME SleevesInv, [Forward!Next]_(Forward!vars) PROVE SleevesInv'
  OBVIOUS
<1>0. Forward!TypeOK /\ weekly \in Forward!Run /\ daily \in Forward!Marking /\ marks \in [Forward!Names -> Forward!Mark] /\ Forward!Marked \in Forward!Names
  BY JobTypes DEF SleevesInv, Forward!TypeOK, Forward!Marked
<1>1. CASE Forward!StartWeekly
  <2> DEFINE new == [Forward!NoRun EXCEPT !.pc = "load", !.day = env.day]
  <2>1. new \in Forward!Run /\ new.pc = "load" /\ new.day = env.day
    BY <1>0, JobTypes DEF Forward!TypeOK, Forward!Run
  <2>2. weekly' = new /\ UNCHANGED <<orders, lots, marks, daily, env>> /\ UNCHANGED env
    BY <1>1 DEF Forward!StartWeekly
  <2> HIDE DEF new
  <2> QED
    BY <1>0, <2>1, <2>2, FaultTypes, RunStep
<1>2. CASE Forward!Load
  BY <1>2, LoadStep
<1>3. CASE Forward!Fails
  <2> DEFINE run == [weekly EXCEPT !.broken = TRUE, !.errors = @ \cup {Forward!Sleeve}, !.hit = @ \cup {Forward!Sleeve}]
  <2>1. run \in Forward!Run /\ run.day = weekly.day
    BY <1>0, JobTypes DEF Forward!Run, Forward!Sleeve
  <2>2. weekly' = Forward!Advance(run) /\ UNCHANGED <<orders, lots, marks, daily>> /\ Forward!Fault
    BY <1>3 DEF Forward!Fails
  <2> HIDE DEF run
  <2>3. weekly' \in Forward!Run /\ weekly'.pc # "trade" /\ weekly'.day \in {1, weekly.day, env.day}
    BY <2>1, <2>2, JobTypes
  <2> QED
    BY <1>0, <2>2, <2>3, FaultTypes, RunStep
<1>4. CASE Forward!Refused
  <2> DEFINE run == [weekly EXCEPT !.errors = @ \cup {Forward!Sleeve}]
  <2>1. run \in Forward!Run /\ run.day = weekly.day
    BY <1>0, JobTypes DEF Forward!Run, Forward!Sleeve
  <2>2. weekly' = Forward!Advance(run) /\ UNCHANGED <<orders, lots, marks, daily, env>> /\ UNCHANGED env
    BY <1>4 DEF Forward!Refused
  <2> HIDE DEF run
  <2>3. weekly' \in Forward!Run /\ weekly'.pc # "trade" /\ weekly'.day \in {1, weekly.day, env.day}
    BY <2>1, <2>2, JobTypes
  <2> QED
    BY <1>0, <2>2, <2>3, FaultTypes, RunStep
<1>5. CASE Forward!Crash
  <2>1. weekly' \in Forward!Run /\ weekly'.pc # "trade" /\ weekly'.day = 1
    BY <1>5, JobTypes DEF Forward!Crash, Forward!NoRun
  <2>2. env' \in [day : {env.day}, markings : 0..MaxMarkings, faults : 0..MaxFaults, crashes : 0..MaxCrashes]
    BY <1>0, <1>5, SleevesAssumption DEF Forward!Crash, Forward!TypeOK,
       Forward!PaperSleevesAssumption
  <2> QED
    BY <1>5, <2>1, <2>2, RunStep DEF Forward!Crash
<1>6. ASSUME NEW targets \in SUBSET Tickers, NEW price \in [Tickers -> SleevePrices \cup {0}], Forward!Trade(targets, price)
      PROVE  SleevesInv'
  BY <1>6, SleeveTradeStep
<1>7. CASE Forward!StartDaily
  <2>1. daily' \in Forward!Marking
    <3>1. [Forward!NoMarking EXCEPT !.pc = "orders", !.day = env.day] \in Forward!Marking
      BY <1>0, JobTypes DEF Forward!TypeOK, Forward!Marking
    <3> QED
      BY <1>7, <3>1 DEF Forward!StartDaily
  <2>2. env' \in [day : {env.day}, markings : 0..MaxMarkings, faults : 0..MaxFaults, crashes : 0..MaxCrashes]
    <3>1. env.markings \in Nat /\ MaxMarkings \in Nat /\ env.markings < MaxMarkings
      BY <1>0, <1>7, SleevesAssumption DEF Forward!StartDaily, Forward!TypeOK,
         Forward!PaperSleevesAssumption
    <3>2. env.markings + 1 \in 0..MaxMarkings
      BY <3>1
    <3>3. env' = [env EXCEPT !.markings = env.markings + 1]
      BY <1>7 DEF Forward!StartDaily
    <3> QED
      BY <1>0, <3>2, <3>3 DEF Forward!TypeOK
  <2> QED
    BY <1>0, <1>7, <2>1, <2>2, MarkingStep DEF Forward!StartDaily
<1>8. CASE Forward!ReadOrders
  <2> DEFINE new == [daily EXCEPT !.pc = "lots", !.net = orders[Forward!Marked].net]
  <2>1. orders[Forward!Marked].net \in [Tickers -> Nat]
    BY <1>0 DEF Forward!TypeOK, Forward!Orders
  <2>2. new \in Forward!Marking
    BY <1>0, <2>1 DEF Forward!Marking
  <2> QED
    BY <1>0, <1>8, <2>2, FaultTypes, MarkingStep DEF Forward!ReadOrders
<1>9. CASE Forward!ReadLots
  <2> DEFINE new == [daily EXCEPT !.pc = "write", !.lots = lots[Forward!Marked]]
  <2>1. lots[Forward!Marked] \in Forward!Lots
    BY <1>0 DEF Forward!TypeOK
  <2>2. new \in Forward!Marking
    BY <1>0, <2>1 DEF Forward!Marking
  <2> QED
    BY <1>0, <1>9, <2>2, FaultTypes, MarkingStep DEF Forward!ReadLots
<1>10. CASE Forward!WriteMark
  <2> DEFINE row == [day |-> daily.day, net |-> daily.net, lots |-> daily.lots]
  <2>1. row \in Forward!Mark
    BY <1>0, SleevesAssumption DEF Forward!Marking, Forward!Mark, Forward!Days,
       Forward!PaperSleevesAssumption
  <2>2. marks' = [marks EXCEPT ![Forward!Marked] = row] /\ daily' = Forward!NextMark(daily)
        /\ UNCHANGED <<orders, lots, weekly>> /\ UNCHANGED env
    BY <1>10 DEF Forward!WriteMark
  <2> HIDE DEF row
  <2>3. marks' \in [Forward!Names -> Forward!Mark] /\ daily' \in Forward!Marking
    BY <1>0, <2>1, <2>2, JobTypes
  <2> QED
    BY <1>0, <2>2, <2>3, FaultTypes, MarkingStep
<1>11. CASE Forward!MarkFails
  <2> DEFINE job == [daily EXCEPT !.broken = TRUE]
  <2>1. job \in Forward!Marking
    BY <1>0 DEF Forward!Marking
  <2>2. daily' = Forward!NextMark(job) /\ UNCHANGED <<orders, lots, marks, weekly>> /\ (Forward!Fault \/ UNCHANGED env)
    BY <1>11 DEF Forward!MarkFails
  <2> HIDE DEF job
  <2>3. daily' \in Forward!Marking
    BY <2>1, <2>2, JobTypes
  <2> QED
    BY <1>0, <2>2, <2>3, FaultTypes, MarkingStep
<1>12. CASE Forward!NextDay
  <2>1. /\ env' = [env EXCEPT !.day = @ + 1] /\ env.day < MaxDay
        /\ UNCHANGED <<orders, lots, marks, weekly, daily>>
    BY <1>12 DEF Forward!NextDay
  <2>2. env'.day = env.day + 1 /\ env.day + 1 \in Forward!Days /\ weekly.day \in Int /\ env.day \in Int
    BY <1>0, <2>1, SleevesAssumption DEF Forward!TypeOK, Forward!Run, Forward!Days,
       Forward!PaperSleevesAssumption
  <2>3. Forward!TypeOK'
    BY <1>0, <2>1, <2>2 DEF Forward!TypeOK
  <2>4. TradeInv'
    BY <2>1, <2>2 DEF SleevesInv, TradeInv, Forward!Sleeve, Forward!Cash
  <2> QED
    BY <2>1, <2>3, <2>4, TablesKept
<1>13. CASE UNCHANGED Forward!vars
  <2>1. UNCHANGED <<orders, lots, marks, weekly, daily>> /\ UNCHANGED env
    BY <1>13 DEF Forward!vars
  <2> QED
    BY <1>0, <2>1, FaultTypes, MarkingStep
<1> QED
  BY <1>1, <1>2, <1>3, <1>4, <1>5, <1>6, <1>7, <1>8, <1>9, <1>10, <1>11, <1>12,
     <1>13 DEF Forward!Next

-----------------------------------------------------------------------------
\* Only a trade changes the positions of a sleeve, and it drops only aged ones.
LEMMA AgingStep ==
  ASSUME SleevesInv, [Forward!Next]_(Forward!vars), lots' # lots
  PROVE  \A s \in Forward!Names : \A l \in lots[s] \ lots'[s] :
           s \notin BuyAndHold /\ env.day - l.since >= HoldDays
<1>1. PICK targets \in SUBSET Tickers, price \in [Tickers -> SleevePrices \cup {0}] : Forward!Trade(targets, price)
  BY DEF Forward!Next, Forward!vars, Forward!StartWeekly, Forward!Load, Forward!Fails,
     Forward!Refused, Forward!Crash, Forward!StartDaily, Forward!ReadOrders, Forward!ReadLots,
         Forward!WriteMark, Forward!MarkFails, Forward!NextDay
<1> DEFINE sold == {l \in Forward!Aged(Forward!Sleeve) : price[l.ticker] > 0}
           kept == Forward!Kept(sold)
<1>2. PICK bought : lots' = [lots EXCEPT ![Forward!Sleeve] = kept \cup bought]
  BY <1>1 DEF Forward!Trade
<1>3. /\ weekly.lots = lots[Forward!Sleeve] /\ weekly.day <= env.day
      /\ weekly.day \in Int /\ env.day \in Int /\ HoldDays \in Int
      /\ lots \in [Forward!Names -> Forward!Lots]
  BY <1>1, SleevesAssumption DEF SleevesInv, TradeInv, Forward!Trade, Forward!TypeOK, Forward!Run,
     Forward!Days, Forward!PaperSleevesAssumption
<1>4. ASSUME NEW s \in Forward!Names, NEW l \in lots[s] \ lots'[s]
      PROVE  s \notin BuyAndHold /\ env.day - l.since >= HoldDays
  <2>1. s = Forward!Sleeve /\ l \in sold
    BY <1>2, <1>3, <1>4 DEF Forward!Kept
  <2>2. s \notin BuyAndHold /\ weekly.day - l.since >= HoldDays
    BY <2>1 DEF Forward!Aged
  <2>3. l.since \in Int
    BY <1>3, <1>4 DEF Forward!Lots, Forward!Lot, Forward!Days
  <2> QED
    BY <1>3, <2>2, <2>3
<1> QED
  BY <1>4

LEMMA SleevesHold == Forward!Spec => []SleevesInv
<1> QED
  BY SleevesInit, SleevesStep, PTL DEF Forward!Spec

\* However often the weekly run is killed, refused or started again, no sleeve trades twice
\* in a week.
THEOREM SleevesTradeOnce == Forward!Spec => []WeekTradesOnce
<1>1. SleevesInv => WeekTradesOnce
  BY DEF SleevesInv, WeekTradesOnce
<1> QED
  BY <1>1, SleevesHold, PTL

\* The open positions hold, ticker by ticker and in one lot each, what the filled orders
\* bought and did not sell; and no sleeve spends money it has not: the equal shares of the
\* cash, rounded down, cost no more than what the orders left of it.
THEOREM SleevesBooksMatch == Forward!Spec => []BookMatchesOrders
<1>1. SleevesInv => BookMatchesOrders
  BY DEF SleevesInv, BookMatchesOrders
<1> QED
  BY <1>1, SleevesHold, PTL

\* A position leaves the book only when it has aged, and never from a buy-and-hold sleeve.
THEOREM SleevesSellAgedOnly == Forward!Spec => SoldOnlyWhenAged
<1>1. SleevesInv /\ [Forward!Next]_(Forward!vars) =>
        [\A s \in Forward!Names : \A l \in lots[s] \ lots'[s] :
           s \notin BuyAndHold /\ env.day - l.since >= HoldDays]_(Forward!vars)
  <2> SUFFICES ASSUME SleevesInv, [Forward!Next]_(Forward!vars)
               PROVE  \A s \in Forward!Names : \A l \in lots[s] \ lots'[s] :
                        s \notin BuyAndHold /\ env.day - l.since >= HoldDays
    OBVIOUS
  <2>1. CASE lots' = lots
    BY <2>1
  <2>2. CASE lots' # lots
    BY <2>2, AgingStep
  <2> QED
    BY <2>1, <2>2
<1> QED
  BY <1>1, SleevesHold, PTL DEF Forward!Spec, SoldOnlyWhenAged, Forward!SoldOnlyWhenAged
================================================================================
