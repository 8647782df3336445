-------------------------- MODULE PositionAggregate --------------------------
(***************************************************************************)
(* The event-sourced aggregate of positions/core/aggregate.py: quantity,   *)
(* cost basis, realized P&L and lots of one position, moved by buys, sells,*)
(* splits and dividends.  A lot is kept under the number of the event that *)
(* opened it: that is the order that _apply_sell sorts the lots into, the  *)
(* timestamps of a position's events growing with their versions.          *)
(***************************************************************************)
EXTENDS Integers, Functions

CONSTANTS
  Quantities,  \* quantities of a trade
  Prices,      \* prices of a trade
  Ratios,      \* split ratios
  Amounts,     \* cash of a dividend
  MaxEvents,   \* bound on the events of the aggregate
  MaxSplits    \* bound on the splits among them

\* A price of a trade, or what is left of it after splits.
Quotients == UNION {1..p : p \in Prices}

\* The price p can be divided by the ratios of any n splits, one after another.
Exact(p, n) ==
  \A f \in [1..n -> Ratios] : \E c \in [0..n -> Quotients] :
    c[0] = p /\ \A k \in 1..n : c[k - 1] = f[k] * c[k]

\* The code divides Decimals, to 28 digits.  Here prices are in units so small that
\* no split leaves a remainder.
ASSUME AggregateAssumption ==
  /\ Quantities \subseteq Nat \ {0}
  /\ Prices \subseteq Nat \ {0}
  /\ Ratios \subseteq Nat \ {0}
  /\ Amounts \subseteq Nat
  /\ MaxEvents \in Nat /\ MaxSplits \in Nat
  /\ \A p \in Prices, n \in 0..MaxSplits : Exact(p, n)

VARIABLES
  quantity, cost, realized,  \* quantity, cost_basis, realized_pnl
  lots,                      \* per opening event: quantity, original quantity, price
  version,
  splits,                    \* splits so far
  spent, proceeds, income,   \* history: cash of buys, sells and dividends
  wasShort                   \* history: some sell exceeded the long lots

aggregateVars ==
  <<quantity, cost, realized, lots, version, splits, spent, proceeds, income, wasShort>>

Lot(q, p) == [qty |-> q, orig |-> q, price |-> p]

Abs(x) == IF x < 0 THEN -x ELSE x

LotsQty(ls) == SumFunction([k \in DOMAIN ls |-> ls[k].qty])

\* sum(abs(lot.quantity) * lot.price for lot in lots)
LotsCost(ls) == SumFunction([k \in DOMAIN ls |-> Abs(ls[k].qty) * ls[k].price])

\* A lot is never empty (the CHECK constraint valid_lot of the lots table).
AggregateTypeOK ==
  /\ {quantity, cost, realized, spent, proceeds, income} \subseteq Int
  /\ DOMAIN lots \subseteq 1..version
  /\ \A k \in DOMAIN lots : lots[k].qty # 0 /\ lots[k].price > 0
  /\ version \in 0..MaxEvents
  /\ splits \in 0..MaxSplits
  /\ wasShort \in BOOLEAN

AggregateInit ==
  /\ quantity = 0 /\ cost = 0 /\ realized = 0
  /\ lots = <<>>
  /\ version = 0 /\ splits = 0
  /\ spent = 0 /\ proceeds = 0 /\ income = 0
  /\ wasShort = FALSE

-----------------------------------------------------------------------------
Bump == version < MaxEvents /\ version' = version + 1

\* lots.append: the event that is being applied opens the lot l.
Opened(ls, l) ==
  [k \in DOMAIN ls \cup {version + 1} |-> IF k = version + 1 THEN l ELSE ls[k]]

\* A buy appends a lot; it never closes a short lot.
Buy(q, p) ==
  /\ Bump
  /\ quantity' = quantity + q
  /\ cost' = cost + q * p
  /\ lots' = Opened(lots, Lot(q, p))
  /\ spent' = spent + q * p
  /\ UNCHANGED <<realized, splits, proceeds, income, wasShort>>

Least(a, b) == IF a < b THEN a ELSE b

\* Quantity in the lots ks.
QtyIn(ks) == SumFunctionOnSet([k \in DOMAIN lots |-> lots[k].qty], ks)

\* The newest lot is sold first.
SoldLifo(q, k) ==
  LET newer == QtyIn({j \in DOMAIN lots : j > k})
  IN  IF q <= newer THEN 0 ELSE Least(q - newer, lots[k].qty)

\* What the FIFO loop takes from lot k for a sell of q: the loop stops at the
\* first lot that is not long.
Sold(q, k) ==
  LET older == QtyIn({j \in DOMAIN lots : j < k})
  IN  IF (\E j \in DOMAIN lots : j <= k /\ lots[j].qty <= 0) \/ q <= older
        THEN 0
        ELSE Least(q - older, lots[k].qty)

SoldTotal(q) == SumFunction([k \in DOMAIN lots |-> Sold(q, k)])

\* Measured against the average cost of the position.
RealizedAverage(q, p) ==
  SoldTotal(q) * p
    - (IF quantity = 0 THEN 0 ELSE (cost * SoldTotal(q)) \div Abs(quantity))

Realized(q, p) == SumFunction([k \in DOMAIN lots |-> Sold(q, k) * (p - lots[k].price)])

\* Only lots with quantity > 0 are kept: exhausted lots go, and every short lot too.
Reduced(q) ==
  [k \in {j \in DOMAIN lots : lots[j].qty - Sold(q, j) > 0} |->
     [lots[k] EXCEPT !.qty = @ - Sold(q, k)]]

\* What remains opens a short lot.
AfterSell(q, p) ==
  IF q > SoldTotal(q) THEN Opened(Reduced(q), Lot(SoldTotal(q) - q, p)) ELSE Reduced(q)

Sell(q, p) ==
  /\ Bump
  /\ quantity' = quantity - q
  /\ lots' = AfterSell(q, p)
  /\ cost' = LotsCost(lots')
  /\ realized' = realized + Realized(q, p)
  /\ proceeds' = proceeds + q * p
  /\ wasShort' = (wasShort \/ q > SoldTotal(q))
  /\ UNCHANGED <<splits, spent, income>>

\* The split reaches the quantity of the position and not its lots.
SplitLotsKept(r) == lots

SplitLots(r) ==
  [k \in DOMAIN lots |-> [qty |-> lots[k].qty * r, orig |-> lots[k].orig * r,
                          price |-> lots[k].price \div r]]

Split(r) ==
  /\ Bump
  /\ splits < MaxSplits
  /\ splits' = splits + 1
  /\ quantity' = quantity * r
  /\ lots' = SplitLots(r)
  /\ UNCHANGED <<cost, realized, spent, proceeds, income, wasShort>>

Dividend(a) ==
  /\ Bump
  /\ realized' = realized + a
  /\ income' = income + a
  /\ UNCHANGED <<quantity, cost, lots, splits, spent, proceeds, wasShort>>

AggregateNext ==
  \/ \E q \in Quantities, p \in Prices : Buy(q, p)
  \/ \E q \in Quantities, p \in Prices : Sell(q, p)
  \/ \E r \in Ratios : Split(r)
  \/ \E a \in Amounts : Dividend(a)

AggregateSpec == AggregateInit /\ [][AggregateNext]_aggregateVars

-----------------------------------------------------------------------------
\* The lots of a position that was never short add up to its quantity, through
\* any mix of partial sells and splits.
LotsCarryPosition == ~wasShort => LotsQty(lots) = quantity

\* P&L is conserved while the position was never short: what the trades and
\* dividends brought in, plus what the open lots cost, is realized P&L.
PnlConserved ==
  ~wasShort => realized = proceeds - spent + cost + income

\* FIFO: only the oldest lot may be partly sold.
FifoMatching ==
  ~wasShort => \A j, k \in DOMAIN lots : j < k => lots[k].qty = lots[k].orig
=============================================================================
