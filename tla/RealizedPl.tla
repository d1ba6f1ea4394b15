----------------------------- MODULE RealizedPl -----------------------------
(***************************************************************************)
(* The realised profit of the account web application                      *)
(* (moomoo/examples/account_web/service.py, calculate_realized_pl): the    *)
(* deals are gone through in the order of their times, a fee of an order   *)
(* is spread over its deals by their value, and what is sold is valued at  *)
(* the average cost of what is held.                                       *)
(*                                                                         *)
(* The code keeps one state for each currency, code and name; they do not  *)
(* meet, and here there is one. Its numbers are decimals of 28 digits;     *)
(* here they are fractions, which do not round.                            *)
(***************************************************************************)
EXTENDS Integers, Sequences, FiniteSets

Sets == INSTANCE FiniteSetsExt

CONSTANTS
    Orders,   \* order ids
    Qtys,     \* quantities of a deal
    Prices,   \* prices of a deal
    Fees,     \* fees of an order
    MaxDeals  \* bound: deals

ASSUME RealizedPlAssumption ==
    Qtys \subseteq Int /\ Prices \subseteq Int /\ Fees \subseteq Int /\ MaxDeals \in Nat

\* Fractions.
Fraction(n, d) ==
    LET g == Sets!Max({k \in 1 .. d : n % k = 0 /\ d % k = 0}) IN <<n \div g, d \div g>>

Whole(n) == <<n, 1>>
a (+) b  == Fraction(a[1] * b[2] + b[1] * a[2], a[2] * b[2])
a (-) b  == Fraction(a[1] * b[2] - b[1] * a[2], a[2] * b[2])
a (.) b  == Fraction(a[1] * b[1], a[2] * b[2])
a (/) n  == Fraction(a[1], a[2] * n)      \* n is a whole number

VARIABLES
    side,    \* of each order: "BUY", "SELL", or another one
    fees,    \* of each order
    deals,   \* sorted by time: [order, qty, price]
    row,     \* deals gone through
    gross,   \* state: gross_qty and gross_cost
    net,     \* state: net_qty and net_cost
    item,    \* the totals of realized_item
    book     \* history: what was bought, what was sold of it, and the fees of both

plVars == <<side, fees, deals, row, gross, net, item, book>>

Deal == [order : Orders, qty : Qtys, price : Prices]

PlInit ==
    /\ side \in [Orders -> {"BUY", "SELL", "SELL_SHORT"}]
    /\ fees \in [Orders -> Fees]
    /\ deals \in UNION {[1 .. n -> Deal] : n \in 0 .. MaxDeals}
    /\ row = 0
    /\ gross = [qty |-> 0, cost |-> Whole(0)] /\ net = [qty |-> 0, cost |-> Whole(0)]
    /\ item = [gross |-> Whole(0), fee |-> Whole(0), net |-> Whole(0), closed |-> 0]
    /\ book = [bought |-> 0, paid |-> 0, buyFee |-> Whole(0), received |-> 0,
               sellFee |-> Whole(0)]

Value(d) == d.qty * d.price

\* allocated_deal_fees.
FeeAlloc(k) ==
    LET d     == deals[k]
        total == Sets!MapThenSumSet(LAMBDA i : Value(deals[i]),
                                    {i \in DOMAIN deals : deals[i].order = d.order})
    IN IF total <= 0 THEN Whole(0) ELSE Whole(fees[d.order] * Value(d)) (/) total

\* A row that is bought.
Buy ==
    LET d == deals[row + 1]
        fee == FeeAlloc(row + 1)
    IN
    /\ side[d.order] = "BUY" /\ d.qty > 0
    /\ gross' = [qty |-> gross.qty + d.qty, cost |-> gross.cost (+) Whole(Value(d))]
    /\ net' = [qty |-> net.qty + d.qty, cost |-> net.cost (+) (Whole(Value(d)) (+) fee)]
    /\ book' = [book EXCEPT !.bought = @ + d.qty, !.paid = @ + Value(d),
                            !.buyFee = @ (+) fee]
    /\ UNCHANGED item

Smaller(m, n) == IF m < n THEN m ELSE n

\* Variant: what is sold leaves the state at the price it is sold for.
OutAtPrice(state, qty, price) == Whole(qty * price)

\* What leaves the state with a sale: the average cost of what is sold.
OutAtCost(state, qty, price) == (state.cost (.) Whole(qty)) (/) state.qty

\* A row that is sold: as much of it as is held.
Sell ==
    LET d        == deals[row + 1]
        closing  == Smaller(d.qty, Smaller(gross.qty, net.qty))
        fee      == (FeeAlloc(row + 1) (.) Whole(closing)) (/) d.qty
        outGross == OutAtCost(gross, closing, d.price)
        outNet   == OutAtCost(net, closing, d.price)
        grossPl  == Whole(d.price * closing) (-) outGross
        netPl    == (Whole(d.price * closing) (-) fee) (-) outNet
    IN
    /\ side[d.order] = "SELL" /\ d.qty > 0 /\ gross.qty > 0 /\ net.qty > 0
    /\ gross' = [qty |-> gross.qty - closing, cost |-> gross.cost (-) outGross]
    /\ net' = [qty |-> net.qty - closing, cost |-> net.cost (-) outNet]
    /\ item' = [gross |-> item.gross (+) grossPl, fee |-> item.fee (+) (grossPl (-) netPl),
                net |-> item.net (+) netPl, closed |-> item.closed + closing]
    /\ book' = [book EXCEPT !.received = @ + d.price * closing, !.sellFee = @ (+) fee]

\* A row that is neither, has no quantity, or sells what is not held.
Skip ==
    LET d == deals[row + 1] IN
    /\ \/ d.qty <= 0
       \/ side[d.order] \notin {"BUY", "SELL"}
       \/ side[d.order] = "SELL" /\ (gross.qty <= 0 \/ net.qty <= 0)
    /\ UNCHANGED <<gross, net, item, book>>

PlNext ==
    /\ row < Len(deals)
    /\ Buy \/ Sell \/ Skip
    /\ row' = row + 1 /\ UNCHANGED <<side, fees, deals>>

PlSpec == PlInit /\ [][PlNext]_plVars

-----------------------------------------------------------------------------
\* The books balance after every row: the profit is what was received less what
\* was paid, except for what is still held, with and without fees; the fee
\* reported is the difference of the two; and nothing is sold that was not bought.
Balanced ==
    /\ item.gross = Whole(book.received) (-) (Whole(book.paid) (-) gross.cost)
    /\ item.net = (Whole(book.received) (-) book.sellFee)
                      (-) ((Whole(book.paid) (+) book.buyFee) (-) net.cost)
    /\ item.net = item.gross (-) item.fee
    /\ gross.qty = net.qty /\ item.closed + gross.qty = book.bought
    /\ gross.qty = 0 => gross.cost = Whole(0) /\ net.cost = Whole(0)
=============================================================================
