--------------------------- MODULE BlockAllocation ---------------------------
(***************************************************************************)
(* orders/services/allocation.py and repositories/allocation.py: one block *)
(* allocation from the create request to the distribution of its fills,    *)
(* and requests that cancel it.  Every repository call commits on its own, *)
(* so each is a step.  The execution order is what OrderLifecycle and      *)
(* AlgoExecution say of it: a quantity that grows until the order closes.  *)
(* Quantities are in units of Decimal("0.00000001").  target_pct is asked  *)
(* for in half units of what its column, Numeric(8, 6), can hold; it may   *)
(* be negative or more than 100%, since only the sum is checked.           *)
(***************************************************************************)
EXTENDS Integers, Functions

CONSTANTS
  NumLegs,    \* legs of the request
  Total,      \* total_quantity
  Scale,      \* column units of target_pct in 100%
  Tolerance,  \* 0.0001, in half units
  MaxPct,     \* bound on the size of a target_pct, in half units
  Cancels,    \* cancel requests
  MaxFaults   \* bound on requests that fail at an await

ASSUME BlockAssumption ==
  /\ NumLegs \in Nat \ {0}
  /\ Total \in Nat \ {0}
  /\ Scale \in Nat \ {0}
  /\ Tolerance \in Nat
  /\ MaxPct \in Nat
  /\ MaxFaults \in Nat

Legs == 1..NumLegs

VARIABLES
  pct,        \* per leg: target_pct of the request
  alloc,      \* the block_allocations row: state, filled_quantity
  leg,        \* per leg: the allocation_legs row
  order,      \* the execution order: placed, open, filled
  trades,     \* per leg: quantity published to its fund's trades.executed
  pc,         \* where create_block_allocation is
  k,          \* the leg that its loop is at
  approved,   \* all_approved
  summary,    \* filled quantity of order_summary, 0 if it is not in a filled state
  got,        \* total_filled
  kpc,        \* per cancel request: where it is
  kleg,       \* per cancel request: the leg its loop is at
  seen,       \* per cancel request: the leg states it read
  faults

creator == <<pc, k, approved, summary, got>>
canceller == <<kpc, kleg, seen>>
vars == <<pct, alloc, leg, order, trades, creator, canceller, faults>>

States == {"none", "draft", "pending_compliance", "approved", "rejected",
           "executing", "allocated", "cancelled"}

TypeOK ==
  /\ pct \in [Legs -> -MaxPct..MaxPct]
  /\ alloc \in [state : States, filled : 0..Total]
  /\ leg \in [Legs -> [state : States, filled : Int]]
  /\ order \in [placed : BOOLEAN, open : BOOLEAN, filled : 0..Total]
  /\ trades \in [Legs -> Int]
  /\ pc \in {"new", "legs", "enter", "check", "decide", "execute", "record",
             "read", "leg", "publish", "finish", "done"}
  /\ k \in 1..NumLegs + 1
  /\ approved \in BOOLEAN
  /\ summary \in 0..Total /\ got \in 0..Total
  /\ kpc \in [Cancels -> {"new", "order", "legs", "leg", "write", "done"}]
  /\ kleg \in [Cancels -> 1..NumLegs + 1]
  /\ seen \in [Cancels -> [Legs -> States]]
  /\ faults \in 0..MaxFaults

Init ==
  /\ pct \in [Legs -> -MaxPct..MaxPct]
  /\ alloc = [state |-> "none", filled |-> 0]
  /\ leg = [i \in Legs |-> [state |-> "none", filled |-> 0]]
  /\ order = [placed |-> FALSE, open |-> FALSE, filled |-> 0]
  /\ trades = [i \in Legs |-> 0]
  /\ pc = "new" /\ k = 1 /\ approved = TRUE /\ summary = 0 /\ got = 0
  /\ kpc = [c \in Cancels |-> "new"]
  /\ kleg = [c \in Cancels |-> 1]
  /\ seen = [c \in Cancels |-> [i \in Legs |-> "none"]]
  /\ faults = 0

-----------------------------------------------------------------------------
(* create_block_allocation *)

PctSum == SumFunction(pct)

\* The legs sum to 100%, give or take the tolerance.
SumsToAll == PctSum - 2 * Scale \in -Tolerance..Tolerance

Refuse ==
  /\ pc = "new"
  /\ ~SumsToAll
  /\ pc' = "done"
  /\ UNCHANGED <<pct, alloc, leg, order, trades, k, approved, summary, got,
                 canceller, faults>>

SetState(s) == alloc' = [alloc EXCEPT !.state = s]

InsertAllocation ==
  /\ pc = "new"
  /\ SumsToAll
  /\ SetState("draft")
  /\ pc' = "legs"
  /\ UNCHANGED <<pct, leg, order, trades, k, approved, summary, got, canceller,
                 faults>>

\* The loops over the legs go on with the next one or leave for a new place.
NextLeg(loop, after) ==
  IF k = NumLegs
    THEN k' = 1 /\ pc' = after
    ELSE k' = k + 1 /\ pc' = loop

SetLeg(i, s) == leg' = [leg EXCEPT ![i].state = s]

InsertLeg ==
  /\ pc = "legs"
  /\ SetLeg(k, "pending_compliance")
  /\ NextLeg("legs", "enter")
  /\ UNCHANGED <<pct, alloc, order, trades, approved, summary, got, canceller,
                 faults>>

EnterCompliance ==
  /\ pc = "enter"
  /\ SetState("pending_compliance")
  /\ pc' = "check"
  /\ UNCHANGED <<pct, leg, order, trades, k, approved, summary, got, canceller,
                 faults>>

\* The decision on the last leg stands for all.
LastDecision(ok) == ok

\* all_approved after one more decision.
AllApproved(ok) == approved /\ ok

\* The compliance gateway decides on a leg; what it computes is left open.
CheckLeg(ok) ==
  /\ pc = "check"
  /\ SetLeg(k, IF ok THEN "approved" ELSE "rejected")
  /\ approved' = AllApproved(ok)
  /\ NextLeg("check", "decide")
  /\ UNCHANGED <<pct, alloc, order, trades, summary, got, canceller, faults>>

Decide ==
  /\ pc = "decide"
  /\ IF approved
       THEN SetState("approved") /\ pc' = "execute"
       ELSE SetState("rejected") /\ pc' = "done"
  /\ UNCHANGED <<pct, leg, order, trades, k, approved, summary, got, canceller,
                 faults>>

\* create_order or create_algo_order in the execution fund: the order comes back
\* filled, partly filled, working, refused, or cancelled by somebody else.
Execute(filled, open, cancelled) ==
  /\ pc = "execute"
  /\ open => filled < Total /\ ~cancelled
  /\ order' = [placed |-> TRUE, open |-> open, filled |-> filled]
  /\ summary' = IF cancelled THEN 0 ELSE filled
  /\ pc' = "record"
  /\ UNCHANGED <<pct, alloc, leg, trades, k, approved, got, canceller, faults>>

\* Only an order that is filled in full is distributed.
DistributesFull == summary = Total

\* order_summary.state is FILLED or PARTIALLY_FILLED.
Distributes == summary > 0

RecordOrder ==
  /\ pc = "record"
  /\ SetState("executing")
  /\ pc' = IF Distributes THEN "read" ELSE "done"
  /\ UNCHANGED <<pct, leg, order, trades, k, approved, summary, got, canceller,
                 faults>>

-----------------------------------------------------------------------------
(* allocate_fills *)

\* PostgreSQL rounds to the scale of the column, halves away from zero.
Stored(p) == IF p >= 0 THEN (p + 1) \div 2 ELSE -((1 - p) \div 2)

\* quantize rounds up.
RoundUp(a, b) == (a + b - 1) \div b

\* quantize of a / b with the default rounding, ROUND_HALF_EVEN.
Quantize(a, b) ==
  LET q == a \div b
      r == a % b
  IN  IF 2 * r > b \/ (2 * r = b /\ q % 2 = 1) THEN q + 1 ELSE q

Rounded(filled) ==
  [i \in 1..NumLegs - 1 |-> Quantize(filled * Stored(pct[i]), Scale)]

\* The last leg gets the remainder, which rounding can make negative.
Share(filled, i) ==
  IF i = NumLegs
    THEN filled - SumFunction(Rounded(filled))
    ELSE Rounded(filled)[i]

\* The allocation is marked before its legs are worked off.
ReadAndMark ==
  /\ pc = "read"
  /\ got' = order.filled
  /\ alloc' = [state |-> "allocated", filled |-> order.filled]
  /\ pc' = "leg"
  /\ UNCHANGED <<pct, leg, order, trades, k, approved, summary, canceller, faults>>

\* Reads the allocation, the order and the legs; of these only the order's
\* quantity can have changed.
ReadFills ==
  /\ pc = "read"
  /\ got' = order.filled
  /\ pc' = "leg"
  /\ UNCHANGED <<pct, alloc, leg, order, trades, k, approved, summary, canceller,
                 faults>>

SkipLeg ==
  /\ pc = "leg"
  /\ Share(got, k) <= 0
  /\ NextLeg("leg", "finish")
  /\ UNCHANGED <<pct, alloc, leg, order, trades, approved, summary, got, canceller,
                 faults>>

UpdateLeg ==
  /\ pc = "leg"
  /\ Share(got, k) > 0
  /\ leg' = [leg EXCEPT ![k] = [state |-> "allocated", filled |-> Share(got, k)]]
  /\ pc' = "publish"
  /\ UNCHANGED <<pct, alloc, order, trades, k, approved, summary, got, canceller,
                 faults>>

PublishLeg ==
  /\ pc = "publish"
  /\ trades' = [trades EXCEPT ![k] = @ + Share(got, k)]
  /\ NextLeg("leg", "finish")
  /\ UNCHANGED <<pct, alloc, leg, order, approved, summary, got, canceller, faults>>

Finish ==
  /\ pc = "finish"
  /\ alloc' = [state |-> "allocated", filled |-> got]
  /\ pc' = "done"
  /\ UNCHANGED <<pct, leg, order, trades, k, approved, summary, got, canceller,
                 faults>>

-----------------------------------------------------------------------------
(* The execution order goes on being filled by later execution reports. *)
OrderFills(filled) ==
  /\ order.open
  /\ filled > order.filled
  /\ order' = [order EXCEPT !.filled = filled, !.open = filled < Total]
  /\ UNCHANGED <<pct, alloc, leg, trades, creator, canceller, faults>>

(* cancel_allocation *)

CancelGoto(c, at) == kpc' = [kpc EXCEPT ![c] = at]

\* The id is known from the log and the response, at the earliest when the order
\* is recorded or the allocation refused.
Known == alloc.state \in {"executing", "allocated", "cancelled", "rejected"}

Terminal == {"allocated", "cancelled", "rejected"}

CancelRead(c) ==
  /\ kpc[c] = "new"
  /\ Known
  /\ CancelGoto(c, IF alloc.state \in Terminal THEN "done" ELSE "order")
  /\ UNCHANGED <<pct, alloc, leg, order, trades, creator, kleg, seen, faults>>

\* cancel_order in the execution fund; an exception is logged and passed over.
CancelOrder(c, closes) ==
  /\ kpc[c] = "order"
  /\ order' = [order EXCEPT !.open = order.open /\ ~closes]
  /\ CancelGoto(c, "legs")
  /\ UNCHANGED <<pct, alloc, leg, trades, creator, kleg, seen, faults>>

CancelReadLegs(c) ==
  /\ kpc[c] = "legs"
  /\ seen' = [seen EXCEPT ![c] = [i \in Legs |-> leg[i].state]]
  /\ CancelGoto(c, "leg")
  /\ UNCHANGED <<pct, alloc, leg, order, trades, creator, kleg, faults>>

CancelLeg(c) ==
  /\ kpc[c] = "leg"
  /\ IF seen[c][kleg[c]] \in {"allocated", "cancelled"}
       THEN UNCHANGED leg
       ELSE SetLeg(kleg[c], "cancelled")
  /\ kleg' = [kleg EXCEPT ![c] = @ + 1]
  /\ CancelGoto(c, IF kleg[c] = NumLegs THEN "write" ELSE "leg")
  /\ UNCHANGED <<pct, alloc, order, trades, creator, seen, faults>>

CancelWrite(c) ==
  /\ kpc[c] = "write"
  /\ SetState("cancelled")
  /\ CancelGoto(c, "done")
  /\ UNCHANGED <<pct, leg, order, trades, creator, kleg, seen, faults>>

-----------------------------------------------------------------------------
\* A request ends with an exception, or with its process, at an await.
CreateFails ==
  /\ pc \notin {"new", "done"}
  /\ faults < MaxFaults
  /\ faults' = faults + 1
  /\ pc' = "done"
  /\ UNCHANGED <<pct, alloc, leg, order, trades, k, approved, summary, got, canceller>>

CancelFails(c) ==
  /\ kpc[c] \notin {"new", "done"}
  /\ faults < MaxFaults
  /\ faults' = faults + 1
  /\ CancelGoto(c, "done")
  /\ UNCHANGED <<pct, alloc, leg, order, trades, creator, kleg, seen>>

Create ==
  \/ Refuse \/ InsertAllocation \/ InsertLeg \/ EnterCompliance
  \/ \E ok \in BOOLEAN : CheckLeg(ok)
  \/ Decide
  \/ \E filled \in 0..Total, open, cancelled \in BOOLEAN :
       Execute(filled, open, cancelled)
  \/ RecordOrder \/ ReadFills \/ SkipLeg \/ UpdateLeg \/ PublishLeg \/ Finish

Cancel(c) ==
  \/ CancelRead(c)
  \/ \E closes \in BOOLEAN : CancelOrder(c, closes)
  \/ CancelReadLegs(c) \/ CancelLeg(c) \/ CancelWrite(c)

Next ==
  \/ Create
  \/ \E filled \in 0..Total : OrderFills(filled)
  \/ \E c \in Cancels : Cancel(c) \/ CancelFails(c)
  \/ CreateFails

Spec == Init /\ [][Next]_vars

FairSpec == Spec /\ WF_vars(Create)

-----------------------------------------------------------------------------
(* The execution order, which is for the whole block, exists only if every *)
(* leg passed its own compliance check: one refused fund stops them all,   *)
(* whichever leg it is (all_approved in create_block_allocation).          *)
ExecutedIsApproved ==
  order.placed => \A i \in Legs : leg[i].state # "rejected"

\* Per leg: by how much its percentage is below zero.
Below == [i \in Legs |-> IF pct[i] < 0 THEN -pct[i] ELSE 0]

(* The funds never get more than was executed, but for rounding (the legs  *)
(* before the last are rounded one by one, by quantize and by the column   *)
(* of target_pct), for a sum above 100% within the tolerance, and for legs *)
(* with a negative percentage: allocate_fills skips what it would take     *)
(* from them, so what the others get for it is on top.                     *)
DistributionBounded ==
  LET n == NumLegs - 1
  IN  2 * Scale * (SumFunction(trades) - order.filled)
        <= order.filled * (Tolerance + n + SumFunction(Below)) + Scale * n

(* An allocation that says ALLOCATED has worked off every leg, whatever    *)
(* failed or was cancelled meanwhile: the leg row holds the leg's share of *)
(* the quantity in the allocation row and exactly that was published.      *)
AllocatedIsComplete ==
  alloc.state = "allocated" =>
    /\ alloc.filled <= order.filled
    /\ \A i \in Legs :
         IF Share(alloc.filled, i) > 0
           THEN /\ leg[i].filled = Share(alloc.filled, i)
                /\ trades[i] = leg[i].filled
           ELSE trades[i] = 0

(* If no request fails, what the broker filled, in full or in part, before *)
(* create_order returned is distributed: a racing cancel may change the    *)
(* final state but takes no leg's trade away.                              *)
FilledIsDistributed ==
  (pc = "record" /\ summary > 0) ~>
     \/ faults > 0
     \/ /\ got >= summary
        /\ \A i \in Legs : Share(got, i) > 0 => trades[i] = Share(got, i)

=============================================================================
